---- MODULE Spec2Model ----
(***************************************************************************)
(* Patch reconciliation engine of chromium-patcher: the persisted ledger   *)
(* (.patchinfo), the staleness classifier PatchInfo.get_stale_status and   *)
(* GitPatcher.apply_patches with its apply and obsolete-handling phases.   *)
(*                                                                         *)
(* Files are byte strings, modelled as sequences of small naturals.  A     *)
(* patch artifact's bytes are <<b>> for a patch body b; the bytes of a     *)
(* working-tree file are the sequence of bodies applied on top of the      *)
(* pristine (checked-in) content <<>>, or <<EXT>> after an external edit.  *)
(* JSON values are records [t |-> type tag, v |-> payload].                *)
(***************************************************************************)
EXTENDS Integers, Sequences, FiniteSets, TLC

\* ---------------------------------------------------------------- bounds
NumNames == 3
NumFiles == 2
MaxData == 2
MaxDisturb == 2
MaxEntries == 2

Names == 1..NumNames
Files == 1..NumFiles

\* ------------------------------------------------------- program constants
PATCHINFO_FILE_SCHEMA_VERSION == 1

\* ------------------------------------------------------------- patch bodies
\* The patch bodies the model knows and the repository-relative files each one
\* touches, in the order `git apply --numstat` lists them.
Bodies == {1, 2, 3}
EXT == 4
BodyFiles(b) ==
    IF b = 1 THEN <<1>>
    ELSE IF b = 2 THEN <<NumFiles>>
    ELSE <<1, NumFiles>>

SeqRange(s) == {s[i] : i \in 1..Len(s)}

\* ------------------------------------------------------------ JSON values
JInt(n) == [t |-> "int", v |-> <<n>>]
JBool(b) == [t |-> "bool", v |-> <<IF b THEN 1 ELSE 0>>]
JStr(s) == [t |-> "str", v |-> s]
JNull == [t |-> "null", v |-> <<>>]

\* isinstance(x, int): bool is a subclass of int in Python.
IsInstanceInt(x) == x.t \in {"int", "bool"}
\* isinstance(x, (str, type(None)))
IsInstanceStrOrNone(x) == x.t \in {"str", "null"}
\* Python ==: True == 1 and False == 0; values of unrelated types differ.
PyEq(x, y) ==
    IF IsInstanceInt(x) /\ IsInstanceInt(y) THEN x.v = y.v
    ELSE x.t = y.t /\ x.v = y.v

\* ----------------------------------------------------------------- files
NoFile == [exists |-> FALSE, data |-> <<>>]
File(d) == [exists |-> TRUE, data |-> d]
Pristine == File(<<>>)

\* hashlib sha256 hexdigest: an injective (collision-free) encoding of the
\* bytes, base EXT + 1 with a leading 1.
RECURSIVE Sha256(_)
Sha256(d) ==
    IF d = <<>> THEN 1
    ELSE Sha256(SubSeq(d, 1, Len(d) - 1)) * (EXT + 1) + d[Len(d)]

\* calculate_file_checksum: ValueError when the path is missing, RuntimeError
\* when reading fails (ioerr), else the digest string.
calculate_file_checksum(file, ioerr) ==
    IF ~file.exists THEN [ok |-> FALSE, exc |-> "ValueError", sum |-> JNull]
    ELSE IF ioerr THEN [ok |-> FALSE, exc |-> "RuntimeError", sum |-> JNull]
    ELSE [ok |-> TRUE, exc |-> "", sum |-> JStr(<<Sha256(file.data)>>)]

\* repo_dir.joinpath(relative_path): the working-tree file a path string names.
PathOf(f) == JStr(<<f>>)
joinpath(repo, path) ==
    IF path.t = "str" /\ Len(path.v) = 1 /\ path.v[1] \in DOMAIN repo
    THEN repo[path.v[1]] ELSE NoFile

\* ------------------------------------------------- ledger (.patchinfo) files
\* A .patchinfo file as it lies on disk: whether it exists, whether its text
\* is JSON for an object (dict), the keys of that object and the raw values
\* of the three known keys.  A value under a missing key is never read.
PatchInfoFields == {"schema_version", "patch_checksum", "affected_files"}
AffectedFileDataFields == {"file_relative_path", "file_checksum"}

NoPatchInfoFile ==
    [exists |-> FALSE, dict |-> FALSE, keys |-> {}, schema_version |-> JNull,
     patch_checksum |-> JNull, af_list |-> FALSE, affected_files |-> <<>>]

\* In-memory AffectedFileData and PatchInfo.
AffectedFileData(path, sum) == [file_relative_path |-> path, file_checksum |-> sum]
PatchInfo(ver, sum, files) ==
    [schema_version |-> ver, patch_checksum |-> sum, affected_files |-> files]
NoPatchInfo == PatchInfo(JNull, JNull, <<>>)

\* validate_dict_keys_match_dataclass: every dataclass field is a key of the
\* dict; keys beyond the dataclass fields are not looked at.
validate_dict_keys_match_dataclass(keys, fields) == fields \subseteq keys

\* AffectedFileData.load: TRUE iff no TypeError is raised for the raw entry.
AffectedFileData_load_ok(e) ==
    /\ validate_dict_keys_match_dataclass(e.keys, AffectedFileDataFields)
    /\ e.file_relative_path.t = "str"
    /\ IsInstanceStrOrNone(e.file_checksum)

\* PatchInfo.parse: ok = FALSE stands for the RuntimeError every failure is
\* wrapped in (missing file, invalid JSON, not a dict, key or type check).
PatchInfo_parse(raw) ==
    IF /\ raw.exists
       /\ raw.dict
       /\ validate_dict_keys_match_dataclass(raw.keys, PatchInfoFields)
       /\ IsInstanceInt(raw.schema_version)
       /\ IsInstanceStrOrNone(raw.patch_checksum)
       /\ raw.af_list
       /\ \A i \in 1..Len(raw.affected_files) :
              AffectedFileData_load_ok(raw.affected_files[i])
    THEN [ok |-> TRUE,
          info |-> PatchInfo(raw.schema_version, raw.patch_checksum,
                      [i \in 1..Len(raw.affected_files) |->
                          AffectedFileData(raw.affected_files[i].file_relative_path,
                                           raw.affected_files[i].file_checksum)])]
    ELSE [ok |-> FALSE, info |-> NoPatchInfo]

\* PatchInfo.write: json.dump(asdict(self)) of an in-memory PatchInfo.
PatchInfo_write(info) ==
    [exists |-> TRUE, dict |-> TRUE, keys |-> PatchInfoFields,
     schema_version |-> info.schema_version,
     patch_checksum |-> info.patch_checksum,
     af_list |-> TRUE,
     affected_files |->
        [i \in 1..Len(info.affected_files) |->
            [keys |-> AffectedFileDataFields,
             file_relative_path |-> info.affected_files[i].file_relative_path,
             file_checksum |-> info.affected_files[i].file_checksum]]]

\* ------------------------------------------------------ staleness classifier
\* The index of the first affected file whose current checksum cannot be
\* computed or differs from the recorded one; 0 when there is none.
RECURSIVE FirstSrcChanged(_, _, _, _)
FirstSrcChanged(repo, entries, ioerr, i) ==
    IF i > Len(entries) THEN 0
    ELSE LET cur == calculate_file_checksum(
                        joinpath(repo, entries[i].file_relative_path),
                        entries[i].file_relative_path \in ioerr)
         IN IF ~cur.ok \/ ~PyEq(cur.sum, entries[i].file_checksum) THEN i
            ELSE FirstSrcChanged(repo, entries, ioerr, i + 1)

\* Variants of get_stale_status with one slip each.
\* The affected files are compared before the patch file.
get_stale_status_SrcFirst(repo, patch_file, patchinfo_file, patch_ioerr, ioerr) ==
    IF ~patchinfo_file.exists THEN "NO_PATCHINFO"
    ELSE LET parsed == PatchInfo_parse(patchinfo_file)
             patchinfo == parsed.info
             cur == calculate_file_checksum(patch_file, patch_ioerr)
         IN IF ~parsed.ok THEN "PATCHINFO_OUTDATED"
            ELSE IF ~PyEq(patchinfo.schema_version,
                          JInt(PATCHINFO_FILE_SCHEMA_VERSION))
            THEN "PATCHINFO_OUTDATED"
            ELSE IF FirstSrcChanged(repo, patchinfo.affected_files, ioerr, 1) # 0
            THEN "SRC_CHANGED"
            ELSE IF ~cur.ok THEN "PATCH_CHANGED"
            ELSE IF ~PyEq(cur.sum, patchinfo.patch_checksum) THEN "PATCH_CHANGED"
            ELSE "NONE"

\* The is_file() test is missing: a missing ledger is a parse failure.
get_stale_status_NoIsFile(repo, patch_file, patchinfo_file, patch_ioerr, ioerr) ==
    LET parsed == PatchInfo_parse(patchinfo_file)
        patchinfo == parsed.info
        cur == calculate_file_checksum(patch_file, patch_ioerr)
    IN IF ~parsed.ok THEN "PATCHINFO_OUTDATED"
       ELSE IF ~PyEq(patchinfo.schema_version,
                     JInt(PATCHINFO_FILE_SCHEMA_VERSION))
       THEN "PATCHINFO_OUTDATED"
       ELSE IF ~cur.ok THEN "PATCH_CHANGED"
       ELSE IF ~PyEq(cur.sum, patchinfo.patch_checksum) THEN "PATCH_CHANGED"
       ELSE IF FirstSrcChanged(repo, patchinfo.affected_files, ioerr, 1) # 0
       THEN "SRC_CHANGED"
       ELSE "NONE"

\* The schema version is not compared.
get_stale_status_NoVersion(repo, patch_file, patchinfo_file, patch_ioerr, ioerr) ==
    IF ~patchinfo_file.exists THEN "NO_PATCHINFO"
    ELSE LET parsed == PatchInfo_parse(patchinfo_file)
             patchinfo == parsed.info
             cur == calculate_file_checksum(patch_file, patch_ioerr)
         IN IF ~parsed.ok THEN "PATCHINFO_OUTDATED"
            ELSE IF ~cur.ok THEN "PATCH_CHANGED"
            ELSE IF ~PyEq(cur.sum, patchinfo.patch_checksum) THEN "PATCH_CHANGED"
            ELSE IF FirstSrcChanged(repo, patchinfo.affected_files, ioerr, 1) # 0
            THEN "SRC_CHANGED"
            ELSE "NONE"

\* The checksum of an affected file is computed outside a try block: its
\* exception leaves the classifier ("RAISED").
get_stale_status_Unguarded(repo, patch_file, patchinfo_file, patch_ioerr, ioerr) ==
    IF ~patchinfo_file.exists THEN "NO_PATCHINFO"
    ELSE LET parsed == PatchInfo_parse(patchinfo_file)
             patchinfo == parsed.info
             cur == calculate_file_checksum(patch_file, patch_ioerr)
             i == FirstSrcChanged(repo, patchinfo.affected_files, ioerr, 1)
         IN IF ~parsed.ok THEN "PATCHINFO_OUTDATED"
            ELSE IF ~PyEq(patchinfo.schema_version,
                          JInt(PATCHINFO_FILE_SCHEMA_VERSION))
            THEN "PATCHINFO_OUTDATED"
            ELSE IF ~cur.ok THEN "PATCH_CHANGED"
            ELSE IF ~PyEq(cur.sum, patchinfo.patch_checksum) THEN "PATCH_CHANGED"
            ELSE IF i = 0 THEN "NONE"
            ELSE IF ~calculate_file_checksum(
                        joinpath(repo, patchinfo.affected_files[i].file_relative_path),
                        patchinfo.affected_files[i].file_relative_path \in ioerr).ok
            THEN "RAISED"
            ELSE "SRC_CHANGED"

\* PatchInfo.get_stale_status.  patch_ioerr: reading the patch file fails;
\* ioerr: the path strings whose file cannot be read.
get_stale_status(repo, patch_file, patchinfo_file, patch_ioerr, ioerr) ==
    IF ~patchinfo_file.exists THEN "NO_PATCHINFO"
    ELSE LET parsed == PatchInfo_parse(patchinfo_file)
             patchinfo == parsed.info
             cur == calculate_file_checksum(patch_file, patch_ioerr)
         IN IF ~parsed.ok THEN "PATCHINFO_OUTDATED"
            ELSE IF ~PyEq(patchinfo.schema_version,
                          JInt(PATCHINFO_FILE_SCHEMA_VERSION))
            THEN "PATCHINFO_OUTDATED"
            ELSE IF ~cur.ok THEN "PATCH_CHANGED"
            ELSE IF ~PyEq(cur.sum, patchinfo.patch_checksum) THEN "PATCH_CHANGED"
            ELSE IF FirstSrcChanged(repo, patchinfo.affected_files, ioerr, 1) # 0
            THEN "SRC_CHANGED"
            ELSE "NONE"

\* PatchApplyReason.from_stale_status
from_stale_status(status) ==
    CASE status = "NONE" -> "None"
      [] status = "NO_PATCHINFO" -> "NO_PATCHINFO"
      [] status = "PATCHINFO_OUTDATED" -> "PATCHINFO_OUTDATED"
      [] status = "PATCH_CHANGED" -> "PATCH_CHANGED"
      [] status = "SRC_CHANGED" -> "SRC_CHANGED"

\* ===================================================== reconciliation engine
VARIABLES
    patch,          \* patch directory: name -> .patch file
    patchinfo,      \* patch directory: name -> .patchinfo file
    repo,           \* working tree: file -> content
    pc,             \* position inside GitPatcher.apply_patches ("idle": not running)
    status,         \* stale status computed for each name by the last discovery
    patches_to_apply,           \* names, in discovery order
    obsolete_patchinfo_files,   \* names, in discovery order
    processing_patches,         \* List[PatchApplyResult] of the apply phase
    k,              \* index of the loop in progress
    files_to_reset, \* path strings collected by the obsolete phase
    obsolete_result,    \* List[FileChangeResult] of the obsolete phase
    result,         \* List[FileChangeResult] returned by apply_patches
    log,            \* VCS operations issued by the run, in order
    written,        \* names whose .patchinfo the run has written
    deleted,        \* names whose .patchinfo the run has deleted
    run,            \* history of the run in progress: what failed, and the
                    \* ledger files and working tree the run started from
    last,           \* outcome of the last completed run, "none" after an
                    \* external change
    env,            \* number of external changes so far
    faults,         \* number of injected operation failures so far
    ioerr,          \* files that exist but cannot be read during discovery
    is_dir,         \* Path.is_dir() of the patch directory and of the repository
    gen,            \* GitPatchGenerator: its arguments, its patch directory and
                    \* the position and locals of update_patches
    cfg             \* ProgramConfig.load: the config file and the outcome

\* The variables of the patch engine, and all variables.
engine == <<patch, patchinfo, repo, pc, status, patches_to_apply,
            obsolete_patchinfo_files, processing_patches, k, files_to_reset,
            obsolete_result, result, log, written, deleted, run, last, env,
            faults, ioerr, is_dir>>
vars == <<engine, gen, cfg>>

disk == <<patch, patchinfo, repo, ioerr, is_dir, gen, cfg>>

\* Every file can be read.
NoIoErr == [patch |-> FALSE, files |-> {}]
locals == <<status, patches_to_apply, obsolete_patchinfo_files,
            processing_patches, k, files_to_reset, obsolete_result, result>>

NoRun == [aborted |-> FALSE, raised |-> FALSE, faulted |-> FALSE,
          reset_failed |-> FALSE,
          unlink_failed |-> FALSE, obsolete_reset_failed |-> FALSE,
          patchinfo0 |-> <<>>, repo0 |-> <<>>]

\* No generator has been constructed; no config file is being loaded.
NoGen == [pc |-> "none"]
NoCfg == [pc |-> "none"]

\* Both directories are there.
BothDirs == [patch_dir |-> TRUE, git_repo_dir |-> TRUE]

\* A fresh checkout: any set of patch artifacts, no ledger, pristine files.
\* A directory that does not exist holds no file.
Init ==
    /\ is_dir \in [patch_dir : BOOLEAN, git_repo_dir : BOOLEAN]
    /\ gen = NoGen
    /\ cfg = NoCfg
    /\ patch \in [Names -> {NoFile} \cup {File(<<b>>) : b \in Bodies}]
    /\ ~is_dir.patch_dir => patch = [n \in Names |-> NoFile]
    /\ patchinfo = [n \in Names |-> NoPatchInfoFile]
    /\ repo = [f \in Files |-> IF is_dir.git_repo_dir THEN Pristine ELSE NoFile]
    /\ pc = "idle"
    /\ status = [n \in Names |-> "NONE"]
    /\ patches_to_apply = <<>>
    /\ obsolete_patchinfo_files = <<>>
    /\ processing_patches = <<>>
    /\ k = 0
    /\ files_to_reset = <<>>
    /\ obsolete_result = <<>>
    /\ result = <<>>
    /\ log = <<>>
    /\ written = {}
    /\ deleted = {}
    /\ run = NoRun
    /\ last = "none"
    /\ env = 0
    /\ faults = 0
    /\ ioerr = NoIoErr

\* ------------------------------------------------- the world outside a run
\* Between two runs a developer edits or deletes a patch artifact, edits or
\* deletes a working-tree file, or damages a ledger file.
External ==
    /\ pc = "idle"
    /\ env + faults < MaxDisturb
    /\ env' = env + 1
    /\ last' = "none"
    /\ UNCHANGED <<pc, locals, log, written, deleted, run, faults>>

EditPatch(n, b) ==
    /\ External
    /\ is_dir.patch_dir
    /\ patch[n] # File(<<b>>)
    /\ patch' = [patch EXCEPT ![n] = File(<<b>>)]
    /\ UNCHANGED <<patchinfo, repo, ioerr, is_dir, gen, cfg>>

DeletePatch(n) ==
    /\ External
    /\ patch[n].exists
    /\ patch' = [patch EXCEPT ![n] = NoFile]
    /\ UNCHANGED <<patchinfo, repo, ioerr, is_dir, gen, cfg>>

EditSource(f) ==
    /\ External
    /\ is_dir.git_repo_dir
    /\ repo[f] # File(<<EXT>>)
    /\ repo' = [repo EXCEPT ![f] = File(<<EXT>>)]
    /\ UNCHANGED <<patch, patchinfo, ioerr, is_dir, gen, cfg>>

DeleteSource(f) ==
    /\ External
    /\ repo[f].exists
    /\ repo' = [repo EXCEPT ![f] = NoFile]
    /\ UNCHANGED <<patch, patchinfo, ioerr, is_dir, gen, cfg>>

\* The ways a ledger file is damaged or hand-edited.
Damaged(raw) ==
    { [raw EXCEPT !.dict = FALSE],
      [raw EXCEPT !.keys = @ \cup {"extra"}],
      [raw EXCEPT !.schema_version = JInt(PATCHINFO_FILE_SCHEMA_VERSION + 1)] }

DamagePatchInfo(n) ==
    /\ External
    /\ patchinfo[n].exists
    /\ \E raw \in Damaged(patchinfo[n]) :
          /\ raw # patchinfo[n]
          /\ patchinfo' = [patchinfo EXCEPT ![n] = raw]
    /\ UNCHANGED <<patch, repo, ioerr, is_dir, gen, cfg>>

\* --------------------------------------------- apply_patches: discovery
\* glob() of the patch directory, taken in ascending name order.
RECURSIVE SelectNames(_, _)
SelectNames(n, keep) ==
    IF n > NumNames THEN <<>>
    ELSE (IF n \in keep THEN <<n>> ELSE <<>>) \o SelectNames(n + 1, keep)

StaleStatusOf(n) ==
    get_stale_status(repo, patch[n], patchinfo[n], ioerr.patch, ioerr.files)

\* The locals and the history of a run that has found nothing to do.
NothingFound ==
    /\ status' = [n \in Names |-> "NONE"]
    /\ patches_to_apply' = <<>>
    /\ obsolete_patchinfo_files' = <<>>
    /\ processing_patches' = <<>>
    /\ k' = 1
    /\ files_to_reset' = <<>>
    /\ obsolete_result' = <<>>
    /\ result' = <<>>
    /\ log' = <<>>
    /\ written' = {}
    /\ deleted' = {}

\* Variant: the repository is looked at first.
PatchDirMissing_RepoFirst ==
    /\ pc = "idle"
    /\ ~is_dir.patch_dir
    /\ NothingFound
    /\ run' = [NoRun EXCEPT !.raised = ~is_dir.git_repo_dir,
                            !.patchinfo0 = patchinfo, !.repo0 = repo]
    /\ pc' = "return"
    /\ UNCHANGED <<disk, last, env, faults>>

\* The patch directory is not a directory: `return []` before anything else.
PatchDirMissing ==
    /\ pc = "idle"
    /\ ~is_dir.patch_dir
    /\ NothingFound
    /\ run' = [NoRun EXCEPT !.patchinfo0 = patchinfo, !.repo0 = repo]
    /\ pc' = "return"
    /\ UNCHANGED <<disk, last, env, faults>>

\* Variant: a missing repository is zero work as well.
RepoDirMissing_ReturnsEmpty ==
    /\ pc = "idle"
    /\ is_dir.patch_dir
    /\ ~is_dir.git_repo_dir
    /\ NothingFound
    /\ run' = [NoRun EXCEPT !.patchinfo0 = patchinfo, !.repo0 = repo]
    /\ pc' = "return"
    /\ UNCHANGED <<disk, last, env, faults>>

\* The repository is not a directory: RuntimeError is raised to the caller.
RepoDirMissing ==
    /\ pc = "idle"
    /\ is_dir.patch_dir
    /\ ~is_dir.git_repo_dir
    /\ NothingFound
    /\ run' = [NoRun EXCEPT !.raised = TRUE,
                            !.patchinfo0 = patchinfo, !.repo0 = repo]
    /\ pc' = "return"
    /\ UNCHANGED <<disk, last, env, faults>>

\* Variant: every patch file found becomes a to-apply unit.
Discover_EveryPatch ==
    /\ pc = "idle"
    /\ is_dir.patch_dir
    /\ is_dir.git_repo_dir
    /\ LET st == [n \in Names |->
                    IF patch[n].exists THEN StaleStatusOf(n) ELSE "NONE"]
           stale == {n \in Names : patch[n].exists}
           orphan == {n \in Names : patchinfo[n].exists /\ ~patch[n].exists}
       IN /\ status' = st
          /\ patches_to_apply' = SelectNames(1, stale)
          /\ obsolete_patchinfo_files' = SelectNames(1, orphan)
          /\ pc' = IF stale # {} THEN "query"
                   ELSE IF orphan # {} THEN "obsolete"
                   ELSE "return"
    /\ processing_patches' = <<>>
    /\ k' = 1
    /\ files_to_reset' = <<>>
    /\ obsolete_result' = <<>>
    /\ result' = <<>>
    /\ log' = <<>>
    /\ written' = {}
    /\ deleted' = {}
    /\ run' = [NoRun EXCEPT !.patchinfo0 = patchinfo, !.repo0 = repo]
    /\ UNCHANGED <<disk, last, env, faults>>

\* Variant: every ledger of a unit that is not fresh is obsolete.
Discover_EveryLedger ==
    /\ pc = "idle"
    /\ is_dir.patch_dir
    /\ is_dir.git_repo_dir
    /\ LET st == [n \in Names |->
                    IF patch[n].exists THEN StaleStatusOf(n) ELSE "NONE"]
           stale == {n \in Names : patch[n].exists /\ st[n] # "NONE"}
           orphan == {n \in Names : patchinfo[n].exists /\ (~patch[n].exists \/ st[n] # "NONE")}
       IN /\ status' = st
          /\ patches_to_apply' = SelectNames(1, stale)
          /\ obsolete_patchinfo_files' = SelectNames(1, orphan)
          /\ pc' = IF stale # {} THEN "query"
                   ELSE IF orphan # {} THEN "obsolete"
                   ELSE "return"
    /\ processing_patches' = <<>>
    /\ k' = 1
    /\ files_to_reset' = <<>>
    /\ obsolete_result' = <<>>
    /\ result' = <<>>
    /\ log' = <<>>
    /\ written' = {}
    /\ deleted' = {}
    /\ run' = [NoRun EXCEPT !.patchinfo0 = patchinfo, !.repo0 = repo]
    /\ UNCHANGED <<disk, last, env, faults>>

Discover ==
    /\ pc = "idle"
    /\ is_dir.patch_dir
    /\ is_dir.git_repo_dir
    /\ LET st == [n \in Names |->
                    IF patch[n].exists THEN StaleStatusOf(n) ELSE "NONE"]
           stale == {n \in Names : patch[n].exists /\ st[n] # "NONE"}
           orphan == {n \in Names : patchinfo[n].exists /\ ~patch[n].exists}
       IN /\ status' = st
          /\ patches_to_apply' = SelectNames(1, stale)
          /\ obsolete_patchinfo_files' = SelectNames(1, orphan)
          /\ pc' = IF stale # {} THEN "query"
                   ELSE IF orphan # {} THEN "obsolete"
                   ELSE "return"
    /\ processing_patches' = <<>>
    /\ k' = 1
    /\ files_to_reset' = <<>>
    /\ obsolete_result' = <<>>
    /\ result' = <<>>
    /\ log' = <<>>
    /\ written' = {}
    /\ deleted' = {}
    /\ run' = [NoRun EXCEPT !.patchinfo0 = patchinfo, !.repo0 = repo]
    /\ UNCHANGED <<disk, last, env, faults>>

\* ------------------------------------- perform_apply_for_patches: query loop
\* PatchApplyResult, with two history fields: applied ("no", "ok", "failed")
\* and after, the checksums the affected files had right after the unit's own
\* apply.
PatchResult(n, reason, files, error) ==
    [name |-> n, reason |-> reason, affected_files |-> files, error |-> error,
     applied |-> "no", after |-> <<>>]

\* A failure of an operation that the state does not force (subprocess exit
\* code, I/O error) is injected; external changes and injected failures
\* together stay within the budget MaxDisturb.
Fault ==
    /\ env + faults < MaxDisturb
    /\ faults' = faults + 1
    /\ run' = [run EXCEPT !.faulted = TRUE]

NoFault == UNCHANGED <<faults, run>>

\* `git apply --numstat` of a patch file: the paths it lists.
NumstatPaths(file) ==
    [i \in 1..Len(BodyFiles(file.data[1])) |-> PathOf(BodyFiles(file.data[1])[i])]

\* The exception escapes perform_apply_for_patches and is swallowed by
\* apply_patches, which returns the result list it has (nothing was added).
Abort ==
    /\ pc' = "return"
    /\ run' = [run EXCEPT !.aborted = TRUE]
    /\ UNCHANGED faults

\* get_affected_files_data succeeds: every listed file exists and is hashed.
QueryOk ==
    /\ pc = "query"
    /\ k <= Len(patches_to_apply)
    /\ LET n == patches_to_apply[k]
           paths == NumstatPaths(patch[n])
       IN /\ \A i \in 1..Len(paths) : joinpath(repo, paths[i]).exists
          /\ processing_patches' = Append(processing_patches,
                PatchResult(n, from_stale_status(status[n]),
                    [i \in 1..Len(paths) |->
                        AffectedFileData(paths[i],
                            calculate_file_checksum(joinpath(repo, paths[i]),
                                                    FALSE).sum)],
                    ""))
          /\ log' = Append(log, <<"numstat", n, <<>>>>)
    /\ k' = k + 1
    /\ NoFault
    /\ UNCHANGED <<disk, pc, status, patches_to_apply, obsolete_patchinfo_files,
                   files_to_reset, obsolete_result, result, written, deleted,
                   last, env>>

\* run_git or the reading of a listed file fails with RuntimeError: the unit
\* is marked failed and the loop goes on.
QueryFail ==
    /\ pc = "query"
    /\ k <= Len(patches_to_apply)
    /\ Fault
    /\ LET n == patches_to_apply[k]
       IN /\ processing_patches' = Append(processing_patches,
                PatchResult(n, from_stale_status(status[n]), <<>>, "query"))
          /\ log' = Append(log, <<"numstat", n, <<>>>>)
    /\ k' = k + 1
    /\ UNCHANGED <<disk, pc, status, patches_to_apply, obsolete_patchinfo_files,
                   files_to_reset, obsolete_result, result, written, deleted,
                   last, env>>

\* A listed file is missing: calculate_file_checksum raises ValueError, which
\* `except RuntimeError` catches neither in get_affected_files_data nor in the
\* loop.
QueryAbort ==
    /\ pc = "query"
    /\ k <= Len(patches_to_apply)
    /\ LET n == patches_to_apply[k]
           paths == NumstatPaths(patch[n])
       IN /\ \E i \in 1..Len(paths) : ~joinpath(repo, paths[i]).exists
          /\ log' = Append(log, <<"numstat", n, <<>>>>)
    /\ Abort
    /\ UNCHANGED <<disk, status, patches_to_apply, obsolete_patchinfo_files,
                   processing_patches, k, files_to_reset, obsolete_result,
                   result, written, deleted, last, env>>

QueryDone ==
    /\ pc = "query"
    /\ k > Len(patches_to_apply)
    /\ pc' = "reset"
    /\ UNCHANGED <<disk, status, patches_to_apply, obsolete_patchinfo_files,
                   processing_patches, k, files_to_reset, obsolete_result,
                   result, log, written, deleted, run, last, env, faults>>

\* ------------------------------------------- perform_apply_for_patches: reset
\* Variant: only the files of the first unit are reset.
FilesToReset_FirstOnly(units, i) ==
    IF units = <<>> \/ units[1].error # "" THEN <<>>
    ELSE [j \in 1..Len(units[1].affected_files) |->
            units[1].affected_files[j].file_relative_path]

RECURSIVE FilesToReset(_, _)
FilesToReset(units, i) ==
    IF i > Len(units) THEN <<>>
    ELSE (IF units[i].error = ""
          THEN [j \in 1..Len(units[i].affected_files) |->
                    units[i].affected_files[j].file_relative_path]
          ELSE <<>>) \o FilesToReset(units, i + 1)

IsTracked(path) == path.t = "str" /\ Len(path.v) = 1 /\ path.v[1] \in Files

\* `git checkout <paths>`: every listed file is back at its pristine content.
Checkout(tree, paths) ==
    [f \in Files |-> IF PathOf(f) \in SeqRange(paths) THEN Pristine ELSE tree[f]]

ResetOk ==
    /\ pc = "reset"
    /\ LET paths == FilesToReset(processing_patches, 1)
       IN /\ repo' = Checkout(repo, paths)
          /\ log' = Append(log, <<"checkout", 0, paths>>)
    /\ pc' = "apply"
    /\ k' = 1
    /\ NoFault
    /\ UNCHANGED <<patch, patchinfo, ioerr, is_dir, gen, cfg, status, patches_to_apply,
                   obsolete_patchinfo_files, processing_patches, files_to_reset,
                   obsolete_result, result, written, deleted, last, env>>

\* reset_files_in_repo raises RuntimeError: logged as a warning, nothing else.
ResetFail ==
    /\ pc = "reset"
    /\ env + faults < MaxDisturb
    /\ faults' = faults + 1
    /\ run' = [run EXCEPT !.faulted = TRUE, !.reset_failed = TRUE]
    /\ log' = Append(log, <<"checkout", 0, FilesToReset(processing_patches, 1)>>)
    /\ pc' = "apply"
    /\ k' = 1
    /\ UNCHANGED <<disk, status, patches_to_apply, obsolete_patchinfo_files,
                   processing_patches, files_to_reset, obsolete_result, result,
                   written, deleted, last, env>>

\* ------------------------------------- perform_apply_for_patches: apply loop
\* `git apply <patch>` succeeds only if every file the patch touches exists;
\* the content it produces is the old content with the body applied on top.
CanApply(tree, file) ==
    \A i \in 1..Len(NumstatPaths(file)) :
        /\ joinpath(tree, NumstatPaths(file)[i]).exists
        /\ Len(joinpath(tree, NumstatPaths(file)[i]).data) < MaxData

GitApply(tree, file) ==
    [f \in Files |->
        IF PathOf(f) \in SeqRange(NumstatPaths(file))
        THEN File(Append(tree[f].data, file.data[1]))
        ELSE tree[f]]

ChecksumsOf(tree, entries) ==
    [i \in 1..Len(entries) |->
        calculate_file_checksum(joinpath(tree, entries[i].file_relative_path),
                                FALSE).sum]

ApplySkip ==
    /\ pc = "apply"
    /\ k <= Len(processing_patches)
    /\ processing_patches[k].error # ""
    /\ k' = k + 1
    /\ UNCHANGED <<disk, pc, status, patches_to_apply, obsolete_patchinfo_files,
                   processing_patches, files_to_reset, obsolete_result, result,
                   log, written, deleted, run, last, env, faults>>

ApplyOk ==
    /\ pc = "apply"
    /\ k <= Len(processing_patches)
    /\ processing_patches[k].error = ""
    /\ LET u == processing_patches[k]
           file == patch[u.name]
       IN /\ CanApply(repo, file)
          /\ repo' = GitApply(repo, file)
          /\ processing_patches' = [processing_patches EXCEPT
                ![k].applied = "ok",
                ![k].after = ChecksumsOf(GitApply(repo, file), u.affected_files)]
          /\ log' = Append(log, <<"apply", u.name, <<>>>>)
    /\ k' = k + 1
    /\ NoFault
    /\ UNCHANGED <<patch, patchinfo, ioerr, is_dir, gen, cfg, pc, status, patches_to_apply,
                   obsolete_patchinfo_files, files_to_reset, obsolete_result,
                   result, written, deleted, last, env>>

\* Variant: a failed apply ends the loop.
ApplyFail_Stops ==
    /\ pc = "apply"
    /\ k <= Len(processing_patches)
    /\ processing_patches[k].error = ""
    /\ LET u == processing_patches[k]
       IN /\ IF CanApply(repo, patch[u.name])
             THEN Fault
             ELSE /\ run' = [run EXCEPT !.faulted = TRUE]
                  /\ UNCHANGED faults
          /\ processing_patches' = [processing_patches EXCEPT
                ![k].error = "apply", ![k].applied = "failed"]
          /\ log' = Append(log, <<"apply", u.name, <<>>>>)
    /\ k' = Len(processing_patches) + 1
    /\ UNCHANGED <<disk, pc, status, patches_to_apply, obsolete_patchinfo_files,
                   files_to_reset, obsolete_result, result, written, deleted,
                   last, env>>

\* run_git raises RuntimeError: the error is recorded on the unit.
ApplyFail ==
    /\ pc = "apply"
    /\ k <= Len(processing_patches)
    /\ processing_patches[k].error = ""
    /\ LET u == processing_patches[k]
       IN /\ IF CanApply(repo, patch[u.name])
             THEN Fault
             ELSE /\ run' = [run EXCEPT !.faulted = TRUE]
                  /\ UNCHANGED faults
          /\ processing_patches' = [processing_patches EXCEPT
                ![k].error = "apply", ![k].applied = "failed"]
          /\ log' = Append(log, <<"apply", u.name, <<>>>>)
    /\ k' = k + 1
    /\ UNCHANGED <<disk, pc, status, patches_to_apply, obsolete_patchinfo_files,
                   files_to_reset, obsolete_result, result, written, deleted,
                   last, env>>

ApplyDone ==
    /\ pc = "apply"
    /\ k > Len(processing_patches)
    /\ pc' = "update"
    /\ k' = 1
    /\ UNCHANGED <<disk, status, patches_to_apply, obsolete_patchinfo_files,
                   processing_patches, files_to_reset, obsolete_result, result,
                   log, written, deleted, run, last, env, faults>>

\* ------------------------------ perform_apply_for_patches: .patchinfo update
\* The index of the first affected file that is missing; 0 when all exist.
RECURSIVE FirstMissing(_, _, _)
FirstMissing(tree, entries, i) ==
    IF i > Len(entries) THEN 0
    ELSE IF ~joinpath(tree, entries[i].file_relative_path).exists THEN i
    ELSE FirstMissing(tree, entries, i + 1)

\* affected_file.file_checksum is updated in place for the files before `stop`
\* (all of them when stop = 0).
Rehash(tree, entries, stop) ==
    [i \in 1..Len(entries) |->
        IF stop = 0 \/ i < stop
        THEN AffectedFileData(entries[i].file_relative_path,
                calculate_file_checksum(
                    joinpath(tree, entries[i].file_relative_path), FALSE).sum)
        ELSE entries[i]]

\* Variant: a unit that carries an error gets a ledger all the same.
UpdateSkip_Writes ==
    /\ pc = "update"
    /\ k <= Len(processing_patches)
    /\ processing_patches[k].error # ""
    /\ LET u == processing_patches[k]
       IN /\ patchinfo' = [patchinfo EXCEPT ![u.name] =
                PatchInfo_write(PatchInfo(JInt(PATCHINFO_FILE_SCHEMA_VERSION),
                    calculate_file_checksum(patch[u.name], FALSE).sum,
                    u.affected_files))]
          /\ written' = written \cup {u.name}
    /\ k' = k + 1
    /\ UNCHANGED <<patch, repo, ioerr, is_dir, gen, cfg, pc, status,
                   patches_to_apply, obsolete_patchinfo_files,
                   processing_patches, files_to_reset, obsolete_result, result,
                   log, deleted, run, last, env, faults>>

UpdateSkip ==
    /\ pc = "update"
    /\ k <= Len(processing_patches)
    /\ processing_patches[k].error # ""
    /\ k' = k + 1
    /\ UNCHANGED <<disk, pc, status, patches_to_apply, obsolete_patchinfo_files,
                   processing_patches, files_to_reset, obsolete_result, result,
                   log, written, deleted, run, last, env, faults>>

\* Variant: the ledger records the checksums taken right after the unit's own
\* apply.
UpdateOk_OwnApply ==
    /\ pc = "update"
    /\ k <= Len(processing_patches)
    /\ processing_patches[k].error = ""
    /\ LET u == processing_patches[k]
           sum == calculate_file_checksum(patch[u.name], FALSE)
           files == [i \in 1..Len(u.affected_files) |->
                        AffectedFileData(u.affected_files[i].file_relative_path,
                                         u.after[i])]
       IN /\ sum.ok
          /\ FirstMissing(repo, u.affected_files, 1) = 0
          /\ processing_patches' = [processing_patches EXCEPT
                                        ![k].affected_files = files]
          /\ patchinfo' = [patchinfo EXCEPT ![u.name] =
                PatchInfo_write(PatchInfo(JInt(PATCHINFO_FILE_SCHEMA_VERSION),
                                          sum.sum, files))]
          /\ written' = written \cup {u.name}
    /\ k' = k + 1
    /\ NoFault
    /\ UNCHANGED <<patch, repo, ioerr, is_dir, gen, cfg, pc, status, patches_to_apply,
                   obsolete_patchinfo_files, files_to_reset, obsolete_result,
                   result, log, deleted, last, env>>

\* Both checksum steps succeed and PatchInfo.write succeeds.
UpdateOk ==
    /\ pc = "update"
    /\ k <= Len(processing_patches)
    /\ processing_patches[k].error = ""
    /\ LET u == processing_patches[k]
           sum == calculate_file_checksum(patch[u.name], FALSE)
           files == Rehash(repo, u.affected_files, 0)
       IN /\ sum.ok
          /\ FirstMissing(repo, u.affected_files, 1) = 0
          /\ processing_patches' = [processing_patches EXCEPT
                                        ![k].affected_files = files]
          /\ patchinfo' = [patchinfo EXCEPT ![u.name] =
                PatchInfo_write(PatchInfo(JInt(PATCHINFO_FILE_SCHEMA_VERSION),
                                          sum.sum, files))]
          /\ written' = written \cup {u.name}
    /\ k' = k + 1
    /\ NoFault
    /\ UNCHANGED <<patch, repo, ioerr, is_dir, gen, cfg, pc, status, patches_to_apply,
                   obsolete_patchinfo_files, files_to_reset, obsolete_result,
                   result, log, deleted, last, env>>

\* Variant: the .patchinfo is written with the checksums at hand.
UpdateChecksumFail_Writes ==
    /\ pc = "update"
    /\ k <= Len(processing_patches)
    /\ processing_patches[k].error = ""
    /\ LET u == processing_patches[k]
           missing == FirstMissing(repo, u.affected_files, 1)
       IN \E at \in 0..Len(u.affected_files) :
            /\ missing = 0 \/ at <= missing
            /\ IF at > 0 /\ at = missing
               THEN /\ run' = [run EXCEPT !.faulted = TRUE]
                    /\ UNCHANGED faults
               ELSE Fault
            /\ processing_patches' = [processing_patches EXCEPT
                  ![k].error = "checksum",
                  ![k].affected_files =
                      IF at = 0 THEN @ ELSE Rehash(repo, @, at)]
            /\ patchinfo' = [patchinfo EXCEPT ![u.name] =
                  PatchInfo_write(PatchInfo(JInt(PATCHINFO_FILE_SCHEMA_VERSION),
                                            JNull, u.affected_files))]
    /\ k' = k + 1
    /\ UNCHANGED <<patch, repo, ioerr, is_dir, gen, cfg, pc, status, patches_to_apply,
                   obsolete_patchinfo_files, files_to_reset, obsolete_result,
                   result, log, written, deleted, last, env>>

\* The patch checksum (at = 0) or the checksum of affected file number `at`
\* cannot be computed: the unit is marked failed, no .patchinfo is written.
UpdateChecksumFail ==
    /\ pc = "update"
    /\ k <= Len(processing_patches)
    /\ processing_patches[k].error = ""
    /\ LET u == processing_patches[k]
           missing == FirstMissing(repo, u.affected_files, 1)
       IN \E at \in 0..Len(u.affected_files) :
            /\ missing = 0 \/ at <= missing
            /\ IF at > 0 /\ at = missing
               THEN /\ run' = [run EXCEPT !.faulted = TRUE]
                    /\ UNCHANGED faults
               ELSE Fault
            /\ processing_patches' = [processing_patches EXCEPT
                  ![k].error = "checksum",
                  ![k].affected_files =
                      IF at = 0 THEN @ ELSE Rehash(repo, @, at)]
    /\ k' = k + 1
    /\ UNCHANGED <<disk, pc, status, patches_to_apply, obsolete_patchinfo_files,
                   files_to_reset, obsolete_result, result, log, written,
                   deleted, last, env>>

\* PatchInfo.write raises RuntimeError outside every try block of the loop:
\* it escapes perform_apply_for_patches.  The file is left as it was (open
\* failed) or truncated (json.dump failed).
UpdateWriteFail ==
    /\ pc = "update"
    /\ k <= Len(processing_patches)
    /\ processing_patches[k].error = ""
    /\ calculate_file_checksum(patch[processing_patches[k].name], FALSE).ok
    /\ FirstMissing(repo, processing_patches[k].affected_files, 1) = 0
    /\ env + faults < MaxDisturb
    /\ faults' = faults + 1
    /\ run' = [run EXCEPT !.faulted = TRUE, !.aborted = TRUE]
    /\ processing_patches' = [processing_patches EXCEPT
            ![k].affected_files = Rehash(repo, @, 0)]
    /\ \/ UNCHANGED patchinfo
       \/ patchinfo' = [patchinfo EXCEPT ![processing_patches[k].name] =
                            [NoPatchInfoFile EXCEPT !.exists = TRUE]]
    /\ pc' = "return"
    /\ UNCHANGED <<patch, repo, ioerr, is_dir, gen, cfg, status, patches_to_apply,
                   obsolete_patchinfo_files, k, files_to_reset, obsolete_result,
                   result, log, written, deleted, last, env>>

UpdateDone ==
    /\ pc = "update"
    /\ k > Len(processing_patches)
    /\ pc' = "report"
    /\ UNCHANGED <<disk, status, patches_to_apply, obsolete_patchinfo_files,
                   processing_patches, k, files_to_reset, obsolete_result,
                   result, log, written, deleted, run, last, env, faults>>

\* ----------------------------------- perform_apply_for_patches: the report
FileChangeResult(file_path, n, reason, error, warning) ==
    [file_path |-> file_path, patch_path |-> n, reason |-> reason,
     error |-> error, warning |-> warning]

\* Path(): the empty path of a unit without affected files.
EmptyPath == JStr(<<>>)

ResultsOfUnit(u) ==
    IF u.affected_files # <<>>
    THEN [i \in 1..Len(u.affected_files) |->
            FileChangeResult(u.affected_files[i].file_relative_path, u.name,
                             u.reason, u.error, "")]
    ELSE <<FileChangeResult(EmptyPath, u.name, u.reason, u.error, "")>>

RECURSIVE ResultsOfUnits(_, _)
ResultsOfUnits(units, i) ==
    IF i > Len(units) THEN <<>>
    ELSE ResultsOfUnit(units[i]) \o ResultsOfUnits(units, i + 1)

Report ==
    /\ pc = "report"
    /\ result' = result \o ResultsOfUnits(processing_patches, 1)
    /\ pc' = IF obsolete_patchinfo_files # <<>> THEN "obsolete" ELSE "return"
    /\ k' = 1
    /\ UNCHANGED <<disk, status, patches_to_apply, obsolete_patchinfo_files,
                   processing_patches, files_to_reset, obsolete_result, log,
                   written, deleted, run, last, env, faults>>

\* ------------------------------------------------ handle_obsolete_patchinfos
\* The ledger parses and is unlinked; its files are collected for the reset.
ObsoleteOk ==
    /\ pc = "obsolete"
    /\ k <= Len(obsolete_patchinfo_files)
    /\ LET n == obsolete_patchinfo_files[k]
           parsed == PatchInfo_parse(patchinfo[n])
           entries == parsed.info.affected_files
       IN /\ parsed.ok
          /\ patchinfo' = [patchinfo EXCEPT ![n] = NoPatchInfoFile]
          /\ deleted' = deleted \cup {n}
          /\ files_to_reset' = files_to_reset \o
                [i \in 1..Len(entries) |-> entries[i].file_relative_path]
          /\ obsolete_result' = obsolete_result \o
                [i \in 1..Len(entries) |->
                    FileChangeResult(entries[i].file_relative_path, n,
                                     "PATCH_REMOVED", "", "")]
    /\ k' = k + 1
    /\ NoFault
    /\ UNCHANGED <<patch, repo, ioerr, is_dir, gen, cfg, pc, status, patches_to_apply,
                   obsolete_patchinfo_files, processing_patches, result, log,
                   written, last, env>>

\* Variant: the first obsolete unit that cannot be handled ends the loop.
ObsoleteSkip_Stops ==
    /\ pc = "obsolete"
    /\ k <= Len(obsolete_patchinfo_files)
    /\ IF PatchInfo_parse(patchinfo[obsolete_patchinfo_files[k]]).ok
       THEN /\ env + faults < MaxDisturb
            /\ faults' = faults + 1
            /\ run' = [run EXCEPT !.faulted = TRUE, !.unlink_failed = TRUE]
       ELSE NoFault
    /\ k' = Len(obsolete_patchinfo_files) + 1
    /\ UNCHANGED <<disk, pc, status, patches_to_apply, obsolete_patchinfo_files,
                   processing_patches, files_to_reset, obsolete_result, result,
                   log, written, deleted, last, env>>

\* PatchInfo.parse raises (the ledger does not parse) or unlink raises: the
\* unit is skipped and its file stays.
ObsoleteSkip ==
    /\ pc = "obsolete"
    /\ k <= Len(obsolete_patchinfo_files)
    /\ IF PatchInfo_parse(patchinfo[obsolete_patchinfo_files[k]]).ok
       THEN /\ env + faults < MaxDisturb
            /\ faults' = faults + 1
            /\ run' = [run EXCEPT !.faulted = TRUE, !.unlink_failed = TRUE]
       ELSE NoFault
    /\ k' = k + 1
    /\ UNCHANGED <<disk, pc, status, patches_to_apply, obsolete_patchinfo_files,
                   processing_patches, files_to_reset, obsolete_result, result,
                   log, written, deleted, last, env>>

ObsoleteResetOk ==
    /\ pc = "obsolete"
    /\ k > Len(obsolete_patchinfo_files)
    /\ \A i \in 1..Len(files_to_reset) : IsTracked(files_to_reset[i])
    /\ repo' = Checkout(repo, files_to_reset)
    /\ log' = Append(log, <<"checkout", 0, files_to_reset>>)
    /\ result' = result \o obsolete_result
    /\ pc' = "return"
    /\ NoFault
    /\ UNCHANGED <<patch, patchinfo, ioerr, is_dir, gen, cfg, status, patches_to_apply,
                   obsolete_patchinfo_files, processing_patches, k,
                   files_to_reset, obsolete_result, written, deleted, last, env>>

\* Variant: the failed reset leaves no trace on the records.
ObsoleteResetFail_Silent ==
    /\ pc = "obsolete"
    /\ k > Len(obsolete_patchinfo_files)
    /\ IF \A i \in 1..Len(files_to_reset) : IsTracked(files_to_reset[i])
       THEN /\ env + faults < MaxDisturb
            /\ faults' = faults + 1
       ELSE UNCHANGED faults
    /\ run' = [run EXCEPT !.faulted = TRUE, !.obsolete_reset_failed = TRUE]
    /\ log' = Append(log, <<"checkout", 0, files_to_reset>>)
    /\ result' = result \o obsolete_result
    /\ pc' = "return"
    /\ UNCHANGED <<disk, status, patches_to_apply, obsolete_patchinfo_files,
                   processing_patches, k, files_to_reset, obsolete_result,
                   written, deleted, last, env>>

\* The reset fails: every record of this phase gets the warning.
ObsoleteResetFail ==
    /\ pc = "obsolete"
    /\ k > Len(obsolete_patchinfo_files)
    /\ IF \A i \in 1..Len(files_to_reset) : IsTracked(files_to_reset[i])
       THEN /\ env + faults < MaxDisturb
            /\ faults' = faults + 1
       ELSE UNCHANGED faults
    /\ run' = [run EXCEPT !.faulted = TRUE, !.obsolete_reset_failed = TRUE]
    /\ log' = Append(log, <<"checkout", 0, files_to_reset>>)
    /\ obsolete_result' = [i \in 1..Len(obsolete_result) |->
            [obsolete_result[i] EXCEPT !.warning = "Some resets failed"]]
    /\ result' = result \o [i \in 1..Len(obsolete_result) |->
            [obsolete_result[i] EXCEPT !.warning = "Some resets failed"]]
    /\ pc' = "return"
    /\ UNCHANGED <<disk, status, patches_to_apply, obsolete_patchinfo_files,
                   processing_patches, k, files_to_reset, written, deleted,
                   last, env>>

\* apply_patches returns `result`; the locals of the call are gone.
Return ==
    /\ pc = "return"
    /\ pc' = "idle"
    /\ last' = IF run.faulted \/ run.aborted \/ run.raised
                THEN "failed" ELSE "clean"
    /\ status' = [n \in Names |-> "NONE"]
    /\ patches_to_apply' = <<>>
    /\ obsolete_patchinfo_files' = <<>>
    /\ processing_patches' = <<>>
    /\ k' = 0
    /\ files_to_reset' = <<>>
    /\ obsolete_result' = <<>>
    /\ result' = <<>>
    /\ log' = <<>>
    /\ written' = {}
    /\ deleted' = {}
    /\ run' = NoRun
    /\ UNCHANGED <<disk, env, faults>>

\* -------------------------------------------------------------- the system
Next ==
    \/ \E n \in Names, b \in Bodies : EditPatch(n, b)
    \/ \E n \in Names : DeletePatch(n)
    \/ \E f \in Files : EditSource(f)
    \/ \E f \in Files : DeleteSource(f)
    \/ \E n \in Names : DamagePatchInfo(n)
    \/ PatchDirMissing \/ RepoDirMissing \/ Discover
    \/ QueryOk \/ QueryFail \/ QueryAbort \/ QueryDone
    \/ ResetOk \/ ResetFail
    \/ ApplySkip \/ ApplyOk \/ ApplyFail \/ ApplyDone
    \/ UpdateSkip \/ UpdateOk \/ UpdateChecksumFail \/ UpdateWriteFail
    \/ UpdateDone
    \/ Report
    \/ ObsoleteOk \/ ObsoleteSkip \/ ObsoleteResetOk \/ ObsoleteResetFail
    \/ Return

Spec == Init /\ [][Next]_vars

\* ================================================ the classifier on its own
\* get_stale_status applied once to one patch / ledger pair drawn from a
\* bounded set of on-disk states, well-formed and malformed.
DigestOf(d) == JStr(<<Sha256(d)>>)

RawEntry(keys, path, sum) ==
    [keys |-> keys, file_relative_path |-> path, file_checksum |-> sum]

RawEntries ==
    { RawEntry(AffectedFileDataFields, PathOf(1), DigestOf(<<>>)),
      RawEntry(AffectedFileDataFields, PathOf(1), DigestOf(<<1>>)),
      RawEntry(AffectedFileDataFields, PathOf(NumFiles), DigestOf(<<>>)),
      RawEntry(AffectedFileDataFields, PathOf(1), JNull),
      RawEntry(AffectedFileDataFields, PathOf(1), JInt(7)),
      RawEntry(AffectedFileDataFields \cup {"extra"}, PathOf(1), DigestOf(<<>>)),
      RawEntry({"file_relative_path"}, PathOf(1), JNull) }

RawEntryLists ==
    UNION {[1..len -> RawEntries] : len \in 0..MaxEntries}

RawKeySets ==
    {PatchInfoFields, PatchInfoFields \cup {"extra"}}
        \cup {PatchInfoFields \ {f} : f \in PatchInfoFields}

\* Ledger files whose text is a JSON object, plus one that is not and the
\* missing file.
RawPatchInfoFiles ==
    { [exists |-> TRUE, dict |-> TRUE, keys |-> keys, schema_version |-> ver,
       patch_checksum |-> sum, af_list |-> TRUE, affected_files |-> files] :
        keys \in {PatchInfoFields}, 
        ver \in {JInt(PATCHINFO_FILE_SCHEMA_VERSION),
                 JInt(PATCHINFO_FILE_SCHEMA_VERSION + 1), JBool(TRUE),
                 JStr(<<1>>)},
        sum \in {DigestOf(<<1>>), JNull, JInt(7)},
        files \in RawEntryLists }
    \cup
    { [exists |-> TRUE, dict |-> TRUE, keys |-> keys,
       schema_version |-> JInt(PATCHINFO_FILE_SCHEMA_VERSION),
       patch_checksum |-> DigestOf(<<1>>), af_list |-> TRUE,
       affected_files |-> files] :
        keys \in RawKeySets, files \in RawEntryLists }
    \cup
    { [exists |-> TRUE, dict |-> d, keys |-> PatchInfoFields,
       schema_version |-> JInt(PATCHINFO_FILE_SCHEMA_VERSION),
       patch_checksum |-> DigestOf(<<1>>), af_list |-> l,
       affected_files |-> <<>>] : d \in BOOLEAN, l \in BOOLEAN }
    \cup {NoPatchInfoFile}

InitClassify ==
    /\ patch \in {[n \in Names |-> IF n = 1 THEN f ELSE NoFile] :
                    f \in {NoFile, File(<<1>>), File(<<3>>)}}
    /\ patchinfo \in {[n \in Names |-> IF n = 1 THEN raw ELSE NoPatchInfoFile] :
                        raw \in RawPatchInfoFiles}
    /\ repo \in [Files -> {NoFile, Pristine, File(<<1>>)}]
    /\ ioerr \in [patch : BOOLEAN, files : {{}, {PathOf(1)}}]
    /\ is_dir = BothDirs
    /\ gen = NoGen
    /\ cfg = NoCfg
    /\ pc = "idle"
    /\ status = [n \in Names |-> "NONE"]
    /\ patches_to_apply = <<>>
    /\ obsolete_patchinfo_files = <<>>
    /\ processing_patches = <<>>
    /\ k = 0
    /\ files_to_reset = <<>>
    /\ obsolete_result = <<>>
    /\ result = <<>>
    /\ log = <<>>
    /\ written = {}
    /\ deleted = {}
    /\ run = NoRun
    /\ last = "none"
    /\ env = 0
    /\ faults = 0

Classify ==
    /\ pc = "idle"
    /\ status' = [status EXCEPT ![1] = StaleStatusOf(1)]
    /\ pc' = "classified"
    /\ UNCHANGED <<disk, patches_to_apply, obsolete_patchinfo_files,
                   processing_patches, k, files_to_reset, obsolete_result,
                   result, log, written, deleted, run, last, env, faults>>

NextClassify == Classify

SpecClassify == InitClassify /\ [][NextClassify]_vars

\* ======================================= a patch directory of orphaned ledgers
\* apply_patches on a patch directory that holds only .patchinfo files: every
\* one is obsolete.  The ledgers list a tracked file, a path git does not
\* know, or are not JSON objects at all.
OrphanLedgers ==
    LET ledger(b, path) ==
            PatchInfo_write(PatchInfo(JInt(PATCHINFO_FILE_SCHEMA_VERSION),
                DigestOf(<<b>>), <<AffectedFileData(path, DigestOf(<<b>>))>>))
    IN { NoPatchInfoFile,
         ledger(1, PathOf(1)),
         ledger(2, PathOf(NumFiles)),
         ledger(1, PathOf(NumFiles + 1)),
         [ledger(1, PathOf(1)) EXCEPT !.dict = FALSE] }

InitOrphans ==
    /\ is_dir = BothDirs
    /\ gen = NoGen
    /\ cfg = NoCfg
    /\ patch = [n \in Names |-> NoFile]
    /\ patchinfo \in [Names -> OrphanLedgers]
    /\ repo \in [Files -> {Pristine, File(<<1>>)}]
    /\ ioerr = NoIoErr
    /\ pc = "idle"
    /\ status = [n \in Names |-> "NONE"]
    /\ patches_to_apply = <<>>
    /\ obsolete_patchinfo_files = <<>>
    /\ processing_patches = <<>>
    /\ k = 0
    /\ files_to_reset = <<>>
    /\ obsolete_result = <<>>
    /\ result = <<>>
    /\ log = <<>>
    /\ written = {}
    /\ deleted = {}
    /\ run = NoRun
    /\ last = "none"
    /\ env = 0
    /\ faults = 0

NextOrphans ==
    \/ Discover
    \/ ObsoleteOk \/ ObsoleteSkip \/ ObsoleteResetOk \/ ObsoleteResetFail
    \/ Return

SpecOrphans == InitOrphans /\ [][NextOrphans]_vars

\* ================================================================== claims
\* What the specification says about one patch / ledger pair, stated on the
\* files themselves.
Classified == pc = "classified"

LedgerMissing(n) == ~patchinfo[n].exists
LedgerParses(n) == PatchInfo_parse(patchinfo[n]).ok
\* The schema version as a number (a parsed version is an int or a bool).
VersionIsCurrent(n) ==
    patchinfo[n].schema_version.v = <<PATCHINFO_FILE_SCHEMA_VERSION>>
LedgerUnreadable(n) == ~LedgerParses(n) \/ ~VersionIsCurrent(n)
Readable(file, err) == file.exists /\ ~err
ArtifactMatches(n) ==
    /\ Readable(patch[n], ioerr.patch)
    /\ patchinfo[n].patch_checksum = DigestOf(patch[n].data)
EntryMatches(e) ==
    /\ Readable(joinpath(repo, e.file_relative_path),
                e.file_relative_path \in ioerr.files)
    /\ e.file_checksum = DigestOf(joinpath(repo, e.file_relative_path).data)
SourceMatches(n) ==
    \A i \in 1..Len(patchinfo[n].affected_files) :
        EntryMatches(patchinfo[n].affected_files[i])

FirstMatch(n) ==
    IF LedgerMissing(n) THEN "NO_PATCHINFO"
    ELSE IF LedgerUnreadable(n) THEN "PATCHINFO_OUTDATED"
    ELSE IF ~ArtifactMatches(n) THEN "PATCH_CHANGED"
    ELSE IF ~SourceMatches(n) THEN "SRC_CHANGED"
    ELSE "NONE"

\* C7: get_stale_status returns the first match in the order NO_PATCHINFO,
\* PATCHINFO_OUTDATED, PATCH_CHANGED, SRC_CHANGED; PATCH_CHANGED when both
\* the artifact and an affected file differ; NONE (fresh) iff the ledger
\* exists, parses, has the current version and every fingerprint matches.
C7_ClassifierPriority ==
    Classified =>
        /\ status[1] = FirstMatch(1)
        /\ (LedgerParses(1) /\ VersionIsCurrent(1)
                /\ ~ArtifactMatches(1) /\ ~SourceMatches(1))
              => status[1] = "PATCH_CHANGED"
        /\ status[1] = "NONE" <=>
              (/\ ~LedgerMissing(1) /\ LedgerParses(1) /\ VersionIsCurrent(1)
               /\ ArtifactMatches(1) /\ SourceMatches(1))

C7_Witness ==
    /\ Classified
    /\ LedgerParses(1) /\ VersionIsCurrent(1)
    /\ patch[1].exists /\ ~ioerr.patch /\ ~ArtifactMatches(1)
    /\ patchinfo[1].affected_files # <<>> /\ ~SourceMatches(1)
    /\ status[1] = "PATCH_CHANGED"

\* C8: an artifact whose ledger file does not exist is classified
\* NO_PATCHINFO, whatever the artifact and the working tree are.
C8_NoLedger ==
    (Classified /\ LedgerMissing(1)) => status[1] = "NO_PATCHINFO"

C8_Witness ==
    /\ Classified
    /\ LedgerMissing(1)
    /\ patch[1].exists
    /\ repo[1] # Pristine
    /\ status[1] = "NO_PATCHINFO"

\* C9: a ledger that parses but carries another schema version is classified
\* PATCHINFO_OUTDATED even when every fingerprint matches.
C9_VersionMismatch ==
    (Classified /\ LedgerParses(1) /\ ~VersionIsCurrent(1))
        => status[1] = "PATCHINFO_OUTDATED"

C9_Witness ==
    /\ Classified
    /\ LedgerParses(1) /\ ~VersionIsCurrent(1)
    /\ ArtifactMatches(1)
    /\ patchinfo[1].affected_files # <<>> /\ SourceMatches(1)
    /\ status[1] = "PATCHINFO_OUTDATED"

\* A ledger record as the specification wants it: a JSON object with exactly
\* the three fields, an integer version, a string or null patch fingerprint
\* and a list of objects with exactly a string path and a string or null
\* fingerprint.
EntryWellFormed(e) ==
    /\ e.keys = AffectedFileDataFields
    /\ e.file_relative_path.t = "str"
    /\ e.file_checksum.t \in {"str", "null"}
LedgerWellFormed(raw) ==
    /\ raw.dict
    /\ raw.keys = PatchInfoFields
    /\ raw.schema_version.t = "int"
    /\ raw.patch_checksum.t \in {"str", "null"}
    /\ raw.af_list
    /\ \A i \in 1..Len(raw.affected_files) :
          EntryWellFormed(raw.affected_files[i])

\* C10: a ledger record with an unknown field, a missing field or a field of
\* the wrong type is classified PATCHINFO_OUTDATED.
C10_ParseStrictness ==
    (Classified /\ patchinfo[1].exists /\ ~LedgerWellFormed(patchinfo[1]))
        => status[1] = "PATCHINFO_OUTDATED"

\* ------------------------------------------------- claims about the engine
\* apply_patches is about to return: every effect of the run is in place.
Returning == pc = "return"
Running == pc \notin {"idle", "classified"}

Unit(i) == processing_patches[i]
UnitIds == 1..Len(processing_patches)

\* The exception that ended the run came out of the query loop (the unit
\* after the last processed one raised) or out of the update loop (unit k).
AbortedInQuery ==
    run.aborted /\ Len(processing_patches) < Len(patches_to_apply)
AbortedInUpdate ==
    run.aborted /\ Len(processing_patches) = Len(patches_to_apply)

\* C1: a run that follows a completed run (here: one in which no operation
\* failed) with no change in between discovers zero to-apply units.
C1_Idempotence ==
    (Running /\ last = "clean") => patches_to_apply = <<>>

\* The fingerprints of unit j can be computed: its patch and files exist.
CanFingerprint(j) ==
    /\ patch[Unit(j).name].exists
    /\ FirstMissing(repo, Unit(j).affected_files, 1) = 0

\* C2: when git apply fails for one unit, every other unit whose query and
\* apply succeeded and whose fingerprints can be computed gets its ledger
\* written in the same run (a unit whose own ledger write raised aside), and
\* the failing unit gets none.
C2_ApplyFailureIsolation ==
    Returning =>
        \A i \in UnitIds :
            Unit(i).applied = "failed" =>
                /\ Unit(i).name \notin written
                /\ \A j \in UnitIds \ {i} :
                      (/\ Unit(j).applied = "ok"
                       /\ Unit(j).error = ""
                       /\ CanFingerprint(j)
                       /\ ~(AbortedInUpdate /\ j = k))
                          => Unit(j).name \in written

\* The query of to-apply unit i failed: RuntimeError recorded on the unit, or
\* the exception of a missing affected file.
QueryFailed(i) ==
    \/ i \in UnitIds /\ Unit(i).error = "query"
    \/ AbortedInQuery /\ i = Len(processing_patches) + 1

Reported(n) ==
    \E r \in 1..Len(result) :
        result[r].patch_path = n /\ result[r].reason # "PATCH_REMOVED"

\* C3: a unit whose affected-file query fails (a missing affected file
\* included) is neither applied nor given a ledger, and every sibling unit is
\* still queried, applied if its query succeeded, and reported.
C3_QueryFailureIsolation ==
    Returning =>
        \A i \in 1..Len(patches_to_apply) :
            QueryFailed(i) =>
                /\ patches_to_apply[i] \notin written
                /\ i \in UnitIds => Unit(i).applied = "no"
                /\ \A j \in 1..Len(patches_to_apply) \ {i} :
                      /\ j \in UnitIds
                      /\ Unit(j).error # "query" => Unit(j).applied # "no"
                      /\ Reported(patches_to_apply[j])

\* The affected files the ledger of n listed when the run started.
ListedAtStart(n) == PatchInfo_parse(run.patchinfo0[n]).info.affected_files

RemovedRecords(n) ==
    {r \in 1..Len(result) :
        result[r].patch_path = n /\ result[r].reason = "PATCH_REMOVED"}

\* C4: an orphaned ledger that parses at discovery is deleted by that run,
\* every file it lists is reset, and the run returns one record per listed
\* file with the patch-removed reason and no error, whatever happens to the
\* to-apply units (the unlink and the reset of the obsolete phase succeeding).
C4_OrphanHandled ==
    (Returning /\ ~run.unlink_failed /\ ~run.obsolete_reset_failed) =>
        \A i \in 1..Len(obsolete_patchinfo_files) :
            LET n == obsolete_patchinfo_files[i]
            IN PatchInfo_parse(run.patchinfo0[n]).ok =>
                /\ ~patchinfo[n].exists
                /\ \A e \in SeqRange(ListedAtStart(n)) :
                      joinpath(repo, e.file_relative_path) = Pristine
                /\ Cardinality(RemovedRecords(n)) = Len(ListedAtStart(n))
                /\ \A r \in RemovedRecords(n) : result[r].error = ""

\* The ledger of n is the current version, carries the fingerprint of the
\* patch file and, for each file, the fingerprint of the file as it is now.
LedgerConsistent(n) ==
    /\ PatchInfo_parse(patchinfo[n]).ok
    /\ patchinfo[n].schema_version = JInt(PATCHINFO_FILE_SCHEMA_VERSION)
    /\ patch[n].exists
    /\ patchinfo[n].patch_checksum = DigestOf(patch[n].data)
    /\ \A e \in SeqRange(patchinfo[n].affected_files) :
          /\ joinpath(repo, e.file_relative_path).exists
          /\ e.file_checksum =
                DigestOf(joinpath(repo, e.file_relative_path).data)

\* C5: when apply_patches returns, every ledger written during the run
\* describes the patch file and the working tree as they are at that moment.
C5_LedgerConsistentAtReturn ==
    Returning => \A n \in written : LedgerConsistent(n)

\* C6: an artifact classified SRC_CHANGED (a deleted file included) is
\* repaired by the run: its files are reset, it is applied, and its new
\* ledger records the fingerprints the files had after the apply; stated for
\* runs in which no operation fails.
C6_SourceDriftRepaired ==
    (Returning /\ ~run.faulted) =>
        \A i \in 1..Len(patches_to_apply) :
            status[patches_to_apply[i]] = "SRC_CHANGED" =>
                /\ i \in UnitIds
                /\ Unit(i).applied = "ok"
                /\ patches_to_apply[i] \in written
                /\ \A j \in 1..Len(Unit(i).affected_files) :
                      /\ patchinfo[patches_to_apply[i]].affected_files[j]
                            .file_checksum = Unit(i).after[j]
                      /\ \E l \in 1..Len(log) :
                            /\ log[l][1] = "checkout"
                            /\ Unit(i).affected_files[j].file_relative_path
                                  \in SeqRange(log[l][3])

\* ------------------------------------------------- the apply command's exit
\* command_apply_patches: sys.exit(1) if any record of the returned list has
\* an error, else sys.exit(0); an exception raised by apply_patches is not
\* caught and ends the process with status 1.
ExitStatus ==
    IF run.raised THEN 1
    ELSE IF \E r \in 1..Len(result) : result[r].error # "" THEN 1
    ELSE 0

\* A to-apply unit of the run failed: in its query, its apply or its
\* fingerprinting (error on the unit), or with the exception that ended the run.
SomeUnitFailed ==
    \/ \E i \in UnitIds : Unit(i).error # ""
    \/ run.aborted

\* C11: the apply command exits with status 1 exactly when some to-apply unit
\* of the run failed, and with status 0 otherwise.
C11_ExitContract ==
    (Returning /\ ~run.raised) => (ExitStatus = 1 <=> SomeUnitFailed)

\* The records the returned list holds for to-apply unit n.
RecordsOf(n) ==
    {r \in 1..Len(result) :
        result[r].patch_path = n /\ result[r].reason # "PATCH_REMOVED"}

\* C12: the returned list holds, for every to-apply unit, one record per
\* affected file, or exactly one record with the empty path when the unit has
\* no affected file; each record carries the error of its unit.
C12_ReportComplete ==
    Returning =>
        \A i \in 1..Len(patches_to_apply) :
            /\ i \in UnitIds
            /\ LET u == Unit(i)
                   recs == RecordsOf(u.name)
               IN /\ u.affected_files # <<>> =>
                        /\ Cardinality(recs) = Len(u.affected_files)
                        /\ \A j \in 1..Len(u.affected_files) :
                              \E r \in recs : result[r].file_path =
                                    u.affected_files[j].file_relative_path
                  /\ u.affected_files = <<>> =>
                        /\ Cardinality(recs) = 1
                        /\ \A r \in recs : result[r].file_path = EmptyPath
                  /\ \A r \in recs : result[r].error = u.error

\* C13: when the reset of the apply phase fails the run goes on, the units
\* are applied, and every record of the apply phase carries a warning.
C13_ResetFailureWarns ==
    (Returning /\ run.reset_failed) =>
        /\ ~AbortedInQuery
        /\ \A i \in UnitIds : Unit(i).error # "query" => Unit(i).applied # "no"
        /\ \A r \in 1..Len(result) :
              result[r].reason # "PATCH_REMOVED" => result[r].warning # ""

\* ------------------------------------------------ order of the VCS operations
Checkouts == {i \in 1..Len(log) : log[i][1] = "checkout"}
Applies == {i \in 1..Len(log) : log[i][1] = "apply"}

\* The units whose affected-file query succeeded, and the files they list.
QueriedOk == {i \in UnitIds : Unit(i).error # "query"}
QueriedFiles ==
    UNION {{Unit(i).affected_files[j].file_relative_path :
                j \in 1..Len(Unit(i).affected_files)} : i \in QueriedOk}

\* C14: exactly one reset is issued in the apply phase, for the union of the
\* files of the units whose query succeeded; it precedes the first apply, and
\* no reset lies between two applies.
C14_ResetBeforeApply ==
    /\ pc \in {"apply", "update", "report"} =>
          /\ Cardinality(Checkouts) = 1
          /\ \A c \in Checkouts : SeqRange(log[c][3]) = QueriedFiles
    /\ Applies # {} =>
          Cardinality({c \in Checkouts : \A a \in Applies : c < a}) = 1
    /\ \A a \in Applies, b \in Applies, c \in Checkouts : ~(a < c /\ c < b)

\* Two units with different files were queried, reset together and applied.
C14_Witness ==
    /\ pc = "update"
    /\ Cardinality(Applies) >= 2
    /\ \E i \in QueriedOk, j \in QueriedOk :
          SeqRange(Unit(i).affected_files) # SeqRange(Unit(j).affected_files)
    /\ Cardinality(QueriedFiles) = NumFiles

\* The names of the apply calls issued so far, and of the units to apply.
AppliedNames ==
    LET IsApply(e) == e[1] = "apply"
        calls == SelectSeq(log, IsApply)
    IN [i \in 1..Len(calls) |-> calls[i][2]]
NamesToApply ==
    LET Queried(u) == u.error # "query"
        units == SelectSeq(processing_patches, Queried)
    IN [i \in 1..Len(units) |-> units[i].name]
IsPrefix(s, t) == Len(s) <= Len(t) /\ \A i \in 1..Len(s) : s[i] = t[i]

\* C15: the apply calls are issued in the order of discovery, one call for
\* every unit whose query succeeded, whether or not an earlier call failed.
C15_SerializedApply ==
    /\ IsPrefix([i \in UnitIds |-> Unit(i).name], patches_to_apply)
    /\ IsPrefix(AppliedNames, NamesToApply)
    /\ pc \in {"update", "report"} => AppliedNames = NamesToApply

\* An apply failed and a later unit was applied all the same.
C15_Witness ==
    /\ pc = "update"
    /\ \E i \in UnitIds, j \in UnitIds :
          i < j /\ Unit(i).applied = "failed" /\ Unit(j).applied = "ok"

\* -------------------------------------------------- fingerprinting failures
\* C16: a unit whose fingerprints cannot be computed after its apply succeeded
\* is marked failed, its ledger file is left exactly as the run found it, and
\* the units after it still get their ledgers written.
C16_UnverifiableNotWritten ==
    /\ \A i \in UnitIds :
          Unit(i).error = "checksum" =>
              /\ Unit(i).applied = "ok"
              /\ Unit(i).name \notin written
              /\ patchinfo[Unit(i).name] = run.patchinfo0[Unit(i).name]
    /\ pc = "report" =>
          \A j \in UnitIds : Unit(j).error = "" => Unit(j).name \in written

\* A fingerprinting failure, followed by a unit whose ledger was written.
C16_Witness ==
    /\ pc = "report"
    /\ \E i \in UnitIds, j \in UnitIds :
          /\ i < j
          /\ Unit(i).error = "checksum"
          /\ Unit(j).error = ""
          /\ Unit(j).name \in written

\* ----------------------------------------------------------- obsolete units
ObsoleteIds == 1..Len(obsolete_patchinfo_files)
ParsedAtStart(n) == PatchInfo_parse(run.patchinfo0[n]).ok
ListedPaths(n) ==
    {ListedAtStart(n)[j].file_relative_path : j \in 1..Len(ListedAtStart(n))}

\* The paths handed to some reset of the run.
ResetPaths == UNION {SeqRange(log[c][3]) : c \in Checkouts}

\* The names discovery lists as obsolete in the present state of the disk.
OrphanedNow == {n \in Names : patchinfo[n].exists /\ ~patch[n].exists}

\* C17: when apply_patches returns, no ledger without artifact is left (of
\* those that can be read and unlinked) and the files such a ledger listed
\* have been handed to a reset.
C17_OrphansPurged ==
    (Returning /\ ~run.raised /\ ~run.unlink_failed) =>
        \A i \in ObsoleteIds :
            LET n == obsolete_patchinfo_files[i]
            IN ParsedAtStart(n) =>
                /\ n \notin OrphanedNow
                /\ ListedPaths(n) \subseteq ResetPaths

\* C18: an obsolete ledger that does not parse is left as it is, adds no path
\* to the reset and no record to the result, the other obsolete units are
\* handled all the same, and the next discovery lists it as obsolete again.
C18_UnreadableOrphanSkipped ==
    Returning =>
        \A i \in ObsoleteIds :
            LET n == obsolete_patchinfo_files[i]
            IN ~ParsedAtStart(n) =>
                /\ patchinfo[n] = run.patchinfo0[n]
                /\ n \notin deleted
                /\ \A r \in 1..Len(result) : result[r].patch_path # n
                /\ SeqRange(files_to_reset) =
                      UNION {ListedPaths(m) : m \in deleted}
                /\ \A j \in ObsoleteIds :
                      LET m == obsolete_patchinfo_files[j]
                      IN (ParsedAtStart(m) /\ ~run.unlink_failed) =>
                            /\ m \in deleted
                            /\ ~patchinfo[m].exists
                            /\ RemovedRecords(m) # {}
                /\ n \in SeqRange(SelectNames(1, OrphanedNow))

\* An unreadable orphan was skipped and a readable one after it was handled.
C18_Witness ==
    /\ Returning
    /\ \E i \in ObsoleteIds, j \in ObsoleteIds :
          /\ i < j
          /\ ~ParsedAtStart(obsolete_patchinfo_files[i])
          /\ patchinfo[obsolete_patchinfo_files[i]].exists
          /\ obsolete_patchinfo_files[j] \in deleted
          /\ RemovedRecords(obsolete_patchinfo_files[j]) # {}

\* The records of the apply phase within the returned list.
ApplyPhaseRecords == SubSeq(result, 1, Len(result) - Len(obsolete_result))

\* C19: the obsolete ledgers are deleted before the one reset of the phase is
\* issued; when that reset fails every record of the phase has a warning and
\* no error, the ledgers stay deleted and the records of the apply phase are
\* as the apply phase built them.
C19_ObsoleteResetFailure ==
    /\ pc = "obsolete" =>
          Cardinality(Checkouts) = (IF patches_to_apply = <<>> THEN 0 ELSE 1)
    /\ (Returning /\ run.obsolete_reset_failed) =>
          /\ log[Len(log)] = <<"checkout", 0, files_to_reset>>
          /\ Cardinality(Checkouts) =
                (IF patches_to_apply = <<>> THEN 1 ELSE 2)
          /\ \A r \in 1..Len(result) :
                result[r].reason = "PATCH_REMOVED" =>
                    result[r].warning # "" /\ result[r].error = ""
          /\ \A n \in deleted : ~patchinfo[n].exists
          /\ ApplyPhaseRecords = ResultsOfUnits(processing_patches, 1)
          /\ \A r \in 1..Len(ApplyPhaseRecords) :
                ApplyPhaseRecords[r].warning = ""

\* The obsolete reset failed after a ledger was deleted, in a run that also
\* applied a patch.
C19_Witness ==
    /\ Returning
    /\ run.obsolete_reset_failed
    /\ deleted # {}
    /\ \E r \in 1..Len(result) : result[r].reason = "PATCH_REMOVED"
    /\ \E r \in 1..Len(result) : result[r].reason # "PATCH_REMOVED"

\* ------------------------------------------------------ missing directories
\* C20: without a patch directory apply_patches returns the empty list and
\* does not raise, issues no VCS operation, and leaves the working tree and
\* the ledger files as they were.
C20_NoPatchDirNoWork ==
    (Returning /\ ~is_dir.patch_dir) =>
        /\ result = <<>>
        /\ ~run.raised
        /\ ~run.aborted
        /\ log = <<>>
        /\ repo = run.repo0
        /\ patchinfo = run.patchinfo0
        /\ written = {}
        /\ deleted = {}

\* A run without patch directory over a working tree that has drifted.
C20_Witness ==
    /\ Returning
    /\ ~is_dir.patch_dir
    /\ is_dir.git_repo_dir
    /\ \E f \in Files : repo[f] # Pristine

\* apply_patches raises and touches no ledger file.
RaisesUntouched ==
    /\ run.raised
    /\ result = <<>>
    /\ log = <<>>
    /\ patchinfo = run.patchinfo0
    /\ written = {}
    /\ deleted = {}

\* C21 as stated: whenever the repository directory does not exist,
\* apply_patches raises instead of returning a list, and writes or deletes no
\* ledger file.
C21_NoRepoRaises ==
    (Returning /\ ~is_dir.git_repo_dir) => RaisesUntouched

\* C21, amended: when the patch directory exists and the repository directory
\* does not, apply_patches raises instead of returning a list, and writes or
\* deletes no ledger file.
C21_NoRepoRaisesGivenPatchDir ==
    (Returning /\ is_dir.patch_dir /\ ~is_dir.git_repo_dir) => RaisesUntouched

\* A run over a patch directory with patches and no repository.
C21_Witness ==
    /\ Returning
    /\ is_dir.patch_dir
    /\ ~is_dir.git_repo_dir
    /\ \E n \in Names : patch[n].exists

\* ------------------------------------------------------ ledger-write failure
\* C30: when PatchInfo.write fails for unit k, the failure is the error of
\* the records of that unit, the other units that can be written are written,
\* the obsolete ledgers are still handled, and every unit has its records in
\* the returned list.
C30_WriteFailureLocal ==
    (Returning /\ AbortedInUpdate) =>
        /\ RecordsOf(Unit(k).name) # {}
        /\ \A r \in RecordsOf(Unit(k).name) : result[r].error # ""
        /\ \A j \in UnitIds \ {k} :
              (Unit(j).error = "" /\ CanFingerprint(j))
                  => Unit(j).name \in written
        /\ \A i \in ObsoleteIds :
              ParsedAtStart(obsolete_patchinfo_files[i])
                  => obsolete_patchinfo_files[i] \in deleted
        /\ \A i \in UnitIds : RecordsOf(Unit(i).name) # {}

\* ============================================================ patch generator
\* GitPatchGenerator.update_patches.  A repository-relative path is a string
\* over a small alphabet that holds the path separator and the character the
\* separator is replaced by; a file name of the patch directory is such a
\* string followed by the extension.
PathLen == 3
MaxModified == 2
MaxKeep == 1

PATCH_FILE_REPLACEMENT_SEPARATOR == "-"
PATCH_FILE_EXT == "patch"
PathChars == {"a", "/", PATCH_FILE_REPLACEMENT_SEPARATOR}

\* Paths as git prints them: no leading, trailing or doubled separator.
RelativePaths ==
    {p \in [1..PathLen -> PathChars] :
        /\ p[1] = "a"
        /\ p[PathLen] # "/"
        /\ \A i \in 1..(PathLen - 1) : ~(p[i] = "/" /\ p[i + 1] = "/")}

\* Byte order of the characters, the order of `git diff --name-only`.
CharCode(c) == CASE c = "-" -> 45 [] c = "/" -> 47 [] c = "a" -> 97
PathLess(p, q) ==
    \E i \in 1..PathLen :
        /\ \A j \in 1..(i - 1) : p[j] = q[j]
        /\ CharCode(p[i]) < CharCode(q[i])

\* Path(relative_path).as_posix().replace("/", separator) + "." + ext
patch_filename(relative_path) ==
    [i \in 1..Len(relative_path) |->
        IF relative_path[i] = "/" THEN PATCH_FILE_REPLACEMENT_SEPARATOR
        ELSE relative_path[i]] \o <<".", PATCH_FILE_EXT>>

PatchFilenames == {patch_filename(p) : p \in RelativePaths}

\* The output of `git diff --name-only`: distinct paths in byte order.
DiffOutputs ==
    {d \in UNION {[1..n -> RelativePaths] : n \in 0..MaxModified} :
        \A i \in 1..(Len(d) - 1) : PathLess(d[i], d[i + 1])}

\* relative_paths_to_ignore: None, or a predicate given by the set of paths
\* on which it returns True.
NoFilter == [given |-> FALSE, true_on |-> {}]
Filters ==
    {NoFilter} \cup
    {[given |-> TRUE, true_on |-> t] :
        t \in {{}, RelativePaths} \cup {{p} : p \in RelativePaths}}

\* filter(function, iterable): the elements on which the function is true.
RECURSIVE filter(_, _)
filter(function, iterable) ==
    IF iterable = <<>> THEN <<>>
    ELSE (IF Head(iterable) \in function.true_on
          THEN <<Head(iterable)>> ELSE <<>>) \o filter(function, Tail(iterable))

\* A file of the patch directory is absent, holds a patch written before the
\* run, is left truncated by a failed write, or holds the diff of the path it
\* was written for in this run (the body of `git diff <path>` names the path).
Absent == <<>>
Old == <<"old">>
Partial == <<"partial">>
git_diff(relative_path) == relative_path

KeepLists == {kp \in SUBSET PatchFilenames : Cardinality(kp) <= MaxKeep}

InitGenerate ==
    /\ \E d \in DiffOutputs, f \in Filters, kp \in KeepLists,
          dir \in [PatchFilenames -> {Absent, Old}] :
            gen = [pc |-> "idle", diff |-> d,
                   relative_paths_to_ignore |-> f,
                   patch_files_to_keep |-> kp,
                   dir |-> dir, dir0 |-> dir,
                   modified_relative_paths |-> <<>>,
                   patch_filenames |-> <<>>, k |-> 0,
                   to_remove |-> {}, removed |-> {}, failed |-> ""]
    /\ cfg = NoCfg
    /\ is_dir = BothDirs
    /\ patch = [n \in Names |-> NoFile]
    /\ patchinfo = [n \in Names |-> NoPatchInfoFile]
    /\ repo = [f \in Files |-> Pristine]
    /\ ioerr = NoIoErr
    /\ pc = "idle"
    /\ status = [n \in Names |-> "NONE"]
    /\ patches_to_apply = <<>>
    /\ obsolete_patchinfo_files = <<>>
    /\ processing_patches = <<>>
    /\ k = 0
    /\ files_to_reset = <<>>
    /\ obsolete_result = <<>>
    /\ result = <<>>
    /\ log = <<>>
    /\ written = {}
    /\ deleted = {}
    /\ run = NoRun
    /\ last = "none"
    /\ env = 0
    /\ faults = 0

\* What update_patches leaves alone: the patch engine and the config loader.
NotGenerator == UNCHANGED <<engine, cfg>>

\* get_modified_relative_paths, the filter, and the head of
\* write_patch_files: mkdir and the list of file names.
GetModified ==
    /\ gen.pc = "idle"
    /\ LET paths == IF gen.relative_paths_to_ignore.given
                    THEN filter(gen.relative_paths_to_ignore, gen.diff)
                    ELSE gen.diff
       IN gen' = [gen EXCEPT
            !.pc = "write",
            !.modified_relative_paths = paths,
            !.patch_filenames =
                [i \in 1..Len(paths) |-> patch_filename(paths[i])],
            !.k = 1]
    /\ NotGenerator

\* `git diff --name-only` or mkdir fails: update_patches raises.
GetModifiedFail ==
    /\ gen.pc = "idle"
    /\ \E what \in {"diff", "mkdir"} :
          gen' = [gen EXCEPT !.pc = "raised", !.failed = what]
    /\ NotGenerator

\* write_patch_files, one turn of the loop: `git diff <path>` and write_text.
WriteOk ==
    /\ gen.pc = "write"
    /\ gen.k <= Len(gen.modified_relative_paths)
    /\ gen' = [gen EXCEPT
            !.dir[gen.patch_filenames[gen.k]] =
                git_diff(gen.modified_relative_paths[gen.k]),
            !.k = gen.k + 1]
    /\ NotGenerator

\* Variant: a failed write is passed over and the loop goes on.
WriteFail_Continues ==
    /\ gen.pc = "write"
    /\ gen.k <= Len(gen.modified_relative_paths)
    /\ gen' = [gen EXCEPT !.failed = "write", !.k = gen.k + 1]
    /\ NotGenerator

\* run_git or write_text raises: the exception is re-raised out of
\* update_patches.  The file is untouched, or was opened and left truncated.
WriteFail ==
    /\ gen.pc = "write"
    /\ gen.k <= Len(gen.modified_relative_paths)
    /\ \/ gen' = [gen EXCEPT !.pc = "raised", !.failed = "write"]
       \/ gen' = [gen EXCEPT !.pc = "raised", !.failed = "write",
                             !.dir[gen.patch_filenames[gen.k]] = Partial]
    /\ NotGenerator

\* Variant: the list of files to keep is not consulted.
WriteDone_IgnoresKeep ==
    /\ gen.pc = "write"
    /\ gen.k > Len(gen.modified_relative_paths)
    /\ gen' = [gen EXCEPT
            !.pc = "prune",
            !.to_remove = {f \in PatchFilenames :
                              /\ gen.dir[f] # Absent
                              /\ f \notin SeqRange(gen.patch_filenames)}]
    /\ NotGenerator

\* write_patch_files returns; remove_stale_patch_files lists the files to
\* remove: those in the directory that were neither written nor are to keep.
WriteDone ==
    /\ gen.pc = "write"
    /\ gen.k > Len(gen.modified_relative_paths)
    /\ gen' = [gen EXCEPT
            !.pc = "prune",
            !.to_remove = {f \in PatchFilenames :
                              /\ gen.dir[f] # Absent
                              /\ f \notin SeqRange(gen.patch_filenames)
                                              \cup gen.patch_files_to_keep}]
    /\ NotGenerator

\* unlink of the next file to remove (glob gives them in any order).
RemoveOk ==
    /\ gen.pc = "prune"
    /\ \E f \in gen.to_remove :
          gen' = [gen EXCEPT !.dir[f] = Absent,
                             !.to_remove = @ \ {f},
                             !.removed = @ \cup {f}]
    /\ NotGenerator

\* unlink raises: re-raised out of update_patches.
RemoveFail ==
    /\ gen.pc = "prune"
    /\ gen.to_remove # {}
    /\ gen' = [gen EXCEPT !.pc = "raised", !.failed = "unlink"]
    /\ NotGenerator

RemoveDone ==
    /\ gen.pc = "prune"
    /\ gen.to_remove = {}
    /\ gen' = [gen EXCEPT !.pc = "done"]
    /\ NotGenerator

NextGenerate ==
    \/ GetModified \/ GetModifiedFail
    \/ WriteOk \/ WriteFail \/ WriteDone
    \/ RemoveOk \/ RemoveFail \/ RemoveDone

SpecGenerate == InitGenerate /\ [][NextGenerate]_vars

\* ------------------------------------------------------------------ C22
\* C22: any two distinct modified paths accepted by generation get two
\* distinct artifact file names, so that no artifact written in a batch is
\* overwritten by another artifact of the same batch.
C22_InjectiveNaming ==
    (gen.pc \in {"write", "prune", "done"}) =>
        /\ \A i, j \in DOMAIN gen.patch_filenames :
              i # j => gen.patch_filenames[i] # gen.patch_filenames[j]
        /\ \A i \in 1..(gen.k - 1) :
              gen.dir[gen.patch_filenames[i]]
                  = git_diff(gen.modified_relative_paths[i])

\* ------------------------------------------------------------------ C23
\* C23: after update_patches completes without error an artifact file is in
\* the patch directory iff its name was just written or it existed before
\* and its name is in the keep-list; a deletion failure makes update_patches
\* raise.
C23_Pruning ==
    /\ gen.pc = "done" =>
          \A f \in PatchFilenames :
              gen.dir[f] # Absent
                  <=> \/ f \in SeqRange(gen.patch_filenames)
                      \/ gen.dir0[f] # Absent /\ f \in gen.patch_files_to_keep
    /\ gen.failed = "unlink" => gen.pc = "raised"

\* A completed run that deleted one file and spared a kept one it did not
\* write.
C23_Witness ==
    /\ gen.pc = "done"
    /\ gen.removed # {}
    /\ gen.modified_relative_paths # <<>>
    /\ \E f \in gen.patch_files_to_keep :
          /\ gen.dir0[f] # Absent
          /\ f \notin SeqRange(gen.patch_filenames)
          /\ gen.dir[f] = Old

\* ------------------------------------------------------------------ C24
\* C24: if producing or writing the artifact of one modified path fails,
\* update_patches raises, no artifact for a later path of the batch is
\* written, and pruning does not run: no pre-existing artifact is deleted.
C24_WriteFailureAborts ==
    gen.failed = "write" =>
        /\ gen.pc = "raised"
        /\ \A i \in (gen.k + 1)..Len(gen.modified_relative_paths) :
              gen.dir[gen.patch_filenames[i]]
                  # git_diff(gen.modified_relative_paths[i])
        /\ gen.removed = {}
        /\ \A f \in PatchFilenames : gen.dir0[f] # Absent => gen.dir[f] # Absent

\* The first of two writes failed while the directory held a file that
\* pruning would have deleted.
C24_Witness ==
    /\ gen.failed = "write"
    /\ gen.pc = "raised"
    /\ gen.k < Len(gen.modified_relative_paths)
    /\ \E f \in PatchFilenames :
          /\ gen.dir0[f] # Absent
          /\ f \notin SeqRange(gen.patch_filenames) \cup gen.patch_files_to_keep

\* ------------------------------------------------------------------ C25
\* C25: update_patches writes no artifact for a modified path on which the
\* relative_paths_to_ignore predicate returns true, and writes one for every
\* modified path on which it returns false.
C25_IgnoreExcludes ==
    (gen.pc = "done" /\ gen.relative_paths_to_ignore.given) =>
        \A p \in SeqRange(gen.diff) :
            IF p \in gen.relative_paths_to_ignore.true_on
            THEN p \notin SeqRange(gen.modified_relative_paths)
            ELSE p \in SeqRange(gen.modified_relative_paths)

\* ================================================================ round trip
\* Generating the artifact of one modified file, resetting the file and
\* applying the artifact.  A file is a sequence of lines; a line is its text
\* and its line terminator, "\n" (LF) or "\r\n" (CRLF).
MaxLines == 2

LineTexts == {"x", "y"}
Eols == {"LF", "CRLF"}
Lines == [text : LineTexts, eol : Eols]
Contents == UNION {[1..n -> Lines] : n \in 0..MaxLines}

Min(a, b) == IF a < b THEN a ELSE b

\* Lines equal at the head, and at the tail of what the head leaves.
CommonPrefix(old, new) ==
    CHOOSE n \in 0..Min(Len(old), Len(new)) :
        /\ \A i \in 1..n : old[i] = new[i]
        /\ n < Min(Len(old), Len(new)) => old[n + 1] # new[n + 1]
CommonSuffix(old, new) ==
    LET h == CommonPrefix(old, new)
        room == Min(Len(old), Len(new)) - h
    IN CHOOSE m \in 0..room :
        /\ \A i \in 0..(m - 1) : old[Len(old) - i] = new[Len(new) - i]
        /\ m < room => old[Len(old) - m] # new[Len(new) - m]

\* `git diff --src-prefix=a/ --dst-prefix=b/ --full-index <file>`: the bytes
\* git writes to stdout, as context, removed and added lines.
git_diff_stdout(old, new) ==
    LET h == CommonPrefix(old, new)
        t == CommonSuffix(old, new)
        tagged(tag, lines) ==
            [i \in 1..Len(lines) |->
                [tag |-> tag, text |-> lines[i].text, eol |-> lines[i].eol]]
    IN tagged(" ", SubSeq(old, 1, h))
       \o tagged("-", SubSeq(old, h + 1, Len(old) - t))
       \o tagged("+", SubSeq(new, h + 1, Len(new) - t))
       \o tagged(" ", SubSeq(old, Len(old) - t + 1, Len(old)))

\* subprocess.run(..., text=True): universal newlines, "\r\n" is read as "\n".
text_mode(stdout) == [i \in 1..Len(stdout) |-> [stdout[i] EXCEPT !.eol = "LF"]]

\* Path.write_text: "\n" is written as os.linesep.
write_text(contents, linesep) ==
    [i \in 1..Len(contents) |->
        [contents[i] EXCEPT !.eol = IF @ = "LF" THEN linesep ELSE @]]

\* `git apply --ignore-space-change --ignore-whitespace`: the old side of the
\* patch matches the file when the lines agree up to whitespace, of which the
\* carriage return at the end of a line is one.
PreImage(patch_lines) == SelectSeq(patch_lines, LAMBDA l : l.tag # "+")
Matches(patch_lines, file) ==
    LET pre == PreImage(patch_lines)
    IN /\ Len(pre) = Len(file)
       /\ \A i \in 1..Len(pre) : pre[i].text = file[i].text

\* Context lines keep the bytes of the file; added lines are those of the
\* patch.
RECURSIVE git_apply(_, _)
git_apply(patch_lines, file) ==
    IF patch_lines = <<>> THEN <<>>
    ELSE LET l == Head(patch_lines)
         IN CASE l.tag = "+" ->
                     <<[text |-> l.text, eol |-> l.eol]>>
                         \o git_apply(Tail(patch_lines), file)
              [] l.tag = " " ->
                     <<Head(file)>> \o git_apply(Tail(patch_lines), Tail(file))
              [] l.tag = "-" -> git_apply(Tail(patch_lines), Tail(file))

\* Whether `git diff --diff-filter=M --name-only --ignore-space-at-eol`
\* lists the file: yes when a line text differs, no when the bytes are equal.
TextOf(file) == [i \in 1..Len(file) |-> file[i].text]
MayList(old, new) == old # new
MustList(old, new) == TextOf(old) # TextOf(new)

InitRoundTrip ==
    /\ \E old \in Contents, new \in Contents, linesep \in Eols :
          gen = [pc |-> "modified", pristine |-> old, modified |-> new,
                 linesep |-> linesep, file |-> new, artifact |-> <<>>,
                 reset_ok |-> FALSE, error |-> ""]
    /\ cfg = NoCfg
    /\ is_dir = BothDirs
    /\ patch = [n \in Names |-> NoFile]
    /\ patchinfo = [n \in Names |-> NoPatchInfoFile]
    /\ repo = [f \in Files |-> Pristine]
    /\ ioerr = NoIoErr
    /\ pc = "idle"
    /\ status = [n \in Names |-> "NONE"]
    /\ patches_to_apply = <<>>
    /\ obsolete_patchinfo_files = <<>>
    /\ processing_patches = <<>>
    /\ k = 0
    /\ files_to_reset = <<>>
    /\ obsolete_result = <<>>
    /\ result = <<>>
    /\ log = <<>>
    /\ written = {}
    /\ deleted = {}
    /\ run = NoRun
    /\ last = "none"
    /\ env = 0
    /\ faults = 0

\* update_patches for the one file: listed, diffed, written.
GenerateArtifact ==
    /\ gen.pc = "modified"
    /\ MayList(gen.pristine, gen.modified)
    /\ gen' = [gen EXCEPT
            !.pc = "generated",
            !.artifact = write_text(
                text_mode(git_diff_stdout(gen.pristine, gen.modified)),
                gen.linesep)]
    /\ NotGenerator

\* The file is not in the list of modified paths: no artifact.
NotListed ==
    /\ gen.pc = "modified"
    /\ ~MustList(gen.pristine, gen.modified)
    /\ gen' = [gen EXCEPT !.pc = "unlisted"]
    /\ NotGenerator

\* reset_files_in_repo: `git checkout <file>` restores the pristine bytes.
ResetCheckout ==
    /\ gen.pc = "generated"
    /\ gen' = [gen EXCEPT !.pc = "reset", !.file = gen.pristine,
                          !.reset_ok = TRUE]
    /\ NotGenerator

\* The checkout fails: logged, the run goes on with the file as it is.
ResetCheckoutFail ==
    /\ gen.pc = "generated"
    /\ gen' = [gen EXCEPT !.pc = "reset"]
    /\ NotGenerator

ApplyArtifact ==
    /\ gen.pc = "reset"
    /\ Matches(gen.artifact, gen.file)
    /\ gen' = [gen EXCEPT !.pc = "applied",
                          !.file = git_apply(gen.artifact, gen.file)]
    /\ NotGenerator

\* git apply exits non-zero: RuntimeError, kept as the unit's error.
ApplyArtifactFail ==
    /\ gen.pc = "reset"
    /\ ~Matches(gen.artifact, gen.file)
    /\ gen' = [gen EXCEPT !.pc = "apply_failed", !.error = "apply"]
    /\ NotGenerator

NextRoundTrip ==
    \/ GenerateArtifact \/ NotListed
    \/ ResetCheckout \/ ResetCheckoutFail
    \/ ApplyArtifact \/ ApplyArtifactFail

SpecRoundTrip == InitRoundTrip /\ [][NextRoundTrip]_vars

\* ------------------------------------------------------------------ C26
\* C26: for every modified file, generating its artifact, resetting the
\* checkout to pristine and applying the artifact yields content
\* byte-identical to the content the file had at generation.
C26_RoundTrip ==
    (gen.pc \in {"applied", "apply_failed"} /\ gen.reset_ok) =>
        /\ gen.pc = "applied"
        /\ gen.file = gen.modified

\* ======================================================= a concurrent writer
\* apply_patches takes no lock: another process may write a working-tree file
\* between any two steps of a run.  The writer keeps the set of files it has
\* written while a run was in progress.
NoWriter == [pc |-> "writer", wrote |-> {}]

InitConcurrent ==
    /\ is_dir = BothDirs
    /\ gen = NoWriter
    /\ cfg = NoCfg
    /\ patch \in [Names -> {NoFile} \cup {File(<<b>>) : b \in Bodies}]
    /\ patchinfo = [n \in Names |-> NoPatchInfoFile]
    /\ repo = [f \in Files |-> Pristine]
    /\ pc = "idle"
    /\ status = [n \in Names |-> "NONE"]
    /\ patches_to_apply = <<>>
    /\ obsolete_patchinfo_files = <<>>
    /\ processing_patches = <<>>
    /\ k = 0
    /\ files_to_reset = <<>>
    /\ obsolete_result = <<>>
    /\ result = <<>>
    /\ log = <<>>
    /\ written = {}
    /\ deleted = {}
    /\ run = NoRun
    /\ last = "none"
    /\ env = 0
    /\ faults = 0
    /\ ioerr = NoIoErr

\* The other process writes file f while the run is between two steps.
ConcurrentWrite(f) ==
    /\ pc # "idle"
    /\ env + faults < MaxDisturb
    /\ repo[f] # File(<<EXT>>)
    /\ repo' = [repo EXCEPT ![f] = File(<<EXT>>)]
    /\ gen' = [gen EXCEPT !.wrote = @ \cup {f}]
    /\ env' = env + 1
    /\ UNCHANGED <<patch, patchinfo, ioerr, is_dir, cfg, pc, locals, log,
                   written, deleted, run, last, faults>>

NextConcurrent ==
    \/ \E f \in Files : ConcurrentWrite(f)
    \/ \E n \in Names, b \in Bodies : EditPatch(n, b)
    \/ \E n \in Names : DeletePatch(n)
    \/ \E f \in Files : EditSource(f)
    \/ \E f \in Files : DeleteSource(f)
    \/ \E n \in Names : DamagePatchInfo(n)
    \/ Discover
    \/ QueryOk \/ QueryFail \/ QueryAbort \/ QueryDone
    \/ ResetOk \/ ResetFail
    \/ ApplySkip \/ ApplyOk \/ ApplyFail \/ ApplyDone
    \/ UpdateSkip \/ UpdateOk \/ UpdateChecksumFail \/ UpdateWriteFail
    \/ UpdateDone
    \/ Report
    \/ ObsoleteOk \/ ObsoleteSkip \/ ObsoleteResetOk \/ ObsoleteResetFail
    \/ Return

SpecConcurrent == InitConcurrent /\ [][NextConcurrent]_vars

\* The patches that affect file f.
PatchesOn(f) ==
    {n \in Names : patch[n].exists /\ \E b \in Bodies :
                      patch[n] = File(<<b>>) /\ f \in SeqRange(BodyFiles(b))}

\* ------------------------------------------------------------------ C27
\* C27: if an external writer changes an affected file at any point during a
\* run, the apply-to-fingerprint window included, the classifier of the next
\* run reports the artifact as not FRESH (and so the run re-applies it).
\* Read between two runs on the files that still hold what the writer wrote.
C27_SelfCorrection ==
    pc = "idle" =>
        \A f \in gen.wrote :
            repo[f] = File(<<EXT>>) =>
                \A n \in PatchesOn(f) : StaleStatusOf(n) # "NONE"

\* ============================================================ config loading
\* ProgramConfig.load.  A string is a sequence of characters.  A YAML value
\* is a string, an integer, a sequence, a mapping, null, or is missing from
\* the mapping that should hold it.
Missing == [t |-> "missing"]
YNull == [t |-> "null"]
YStr(s) == [t |-> "str", s |-> s]
YInt(n) == [t |-> "int", n |-> n]
YSeq(items) == [t |-> "seq", items |-> items]
YPatchInfoFile(version) == [t |-> "map", version |-> version]
YConfig(src, patches, dirs, patchinfo_file) ==
    [t |-> "map", chromium_src_dir |-> src, patches_dir |-> patches,
     submodule_dirs |-> dirs, patchinfo_file |-> patchinfo_file]

PathValues ==
    {Missing, YStr(<<"s">>), YStr(<<>>), YStr(<<"/", "s">>), YInt(5)}
DirsValues ==
    {Missing, YSeq(<<>>), YSeq(<<YStr(<<"s">>)>>), YStr(<<"s">>),
     YSeq(<<YInt(5)>>)}
VersionValues == {Missing, YInt(1), YInt(2), YStr(<<"1">>), YStr(<<"s">>)}
PatchInfoFileValues ==
    {Missing, YStr(<<"s">>)} \cup {YPatchInfoFile(v) : v \in VersionValues}
Documents ==
    {YNull, YStr(<<"s">>), YSeq(<<>>)} \cup
    {YConfig(a, b, c, d) : a \in PathValues, b \in PathValues,
                           c \in DirsValues, d \in PatchInfoFileValues}

\* What the path names: nothing, a directory, or a file that cannot be
\* opened, is not UTF-8, is not well-formed YAML, is empty, or holds a
\* document.
ConfigFiles ==
    {[kind |-> kd, doc |-> YNull] :
        kd \in {"missing", "directory", "unreadable", "undecodable",
                "malformed", "empty"}}
    \cup {[kind |-> "document", doc |-> d] : d \in Documents}

\* yaml.safe_load on the open file: an empty stream has no document and
\* gives None.
safe_load(file) ==
    CASE file.kind = "unreadable" -> [exc |-> "PermissionError", data |-> YNull]
      [] file.kind = "undecodable" ->
             [exc |-> "UnicodeDecodeError", data |-> YNull]
      [] file.kind = "malformed" -> [exc |-> "YAMLError", data |-> YNull]
      [] file.kind = "empty" -> [exc |-> "", data |-> YNull]
      [] file.kind = "document" -> [exc |-> "", data |-> file.doc]

\* int(s) for a string of decimal digits.
Digits == {"0", "1"}
IsDigits(s) == Len(s) > 0 /\ \A i \in 1..Len(s) : s[i] \in Digits
RECURSIVE ParseInt(_)
ParseInt(s) ==
    IF s = <<>> THEN 0
    ELSE 10 * ParseInt(SubSeq(s, 1, Len(s) - 1))
         + (IF s[Len(s)] = "1" THEN 1 ELSE 0)

\* pydantic field validation, default (lax) mode.
\* Variant: an integer given for a string is converted.
validate_str_Coercing(v) ==
    IF v.t = "str" THEN [ok |-> TRUE, value |-> v.s]
    ELSE IF v.t = "int" THEN [ok |-> TRUE, value |-> <<"5">>]
    ELSE [ok |-> FALSE, value |-> <<>>]

\* str: a string is required.
validate_str(v) ==
    IF v.t = "str" THEN [ok |-> TRUE, value |-> v.s]
    ELSE [ok |-> FALSE, value |-> <<>>]

\* int: an integer, or a string of digits, which is converted.
validate_int(v) ==
    IF v.t = "int" THEN [ok |-> TRUE, value |-> v.n]
    ELSE IF v.t = "str" /\ IsDigits(v.s)
         THEN [ok |-> TRUE, value |-> ParseInt(v.s)]
    ELSE [ok |-> FALSE, value |-> 0]

\* list[str]: a sequence whose items are strings.
validate_list_str(v) ==
    IF v.t = "seq" /\ \A i \in 1..Len(v.items) : validate_str(v.items[i]).ok
    THEN [ok |-> TRUE,
          value |-> [i \in 1..Len(v.items) |-> validate_str(v.items[i]).value]]
    ELSE [ok |-> FALSE, value |-> <<>>]

\* ConfigModel.validate_paths: not empty, not starting with "/".
validate_paths(v) ==
    LET s == validate_str(v)
    IN IF s.ok /\ s.value # <<>> /\ s.value[1] # "/" THEN s
       ELSE [ok |-> FALSE, value |-> <<>>]

\* PatchInfoConfig: version has the default 1.
PatchInfoConfig_validate(v) ==
    IF v.t = "missing" THEN [ok |-> TRUE, value |-> 1]
    ELSE IF v.t # "map" THEN [ok |-> FALSE, value |-> 0]
    ELSE IF v.version.t = "missing" THEN [ok |-> TRUE, value |-> 1]
    ELSE validate_int(v.version)

NoConfig == [set |-> FALSE]

\* ConfigModel.model_validate and the ProgramConfig built from it.
model_validate(data) ==
    IF data.t # "map" THEN [ok |-> FALSE, config |-> NoConfig]
    ELSE LET src == validate_paths(data.chromium_src_dir)
             patches == validate_paths(data.patches_dir)
             dirs == validate_list_str(data.submodule_dirs)
             version == PatchInfoConfig_validate(data.patchinfo_file)
         IN IF src.ok /\ patches.ok /\ dirs.ok /\ version.ok
            THEN [ok |-> TRUE,
                  config |-> [set |-> TRUE,
                              chromium_src_dir |-> src.value,
                              patches_dir |-> patches.value,
                              repo_dirs |-> dirs.value,
                              patchinfo_file_schema_version |-> version.value]]
            ELSE [ok |-> FALSE, config |-> NoConfig]

\* ProgramConfig.load: the exception raised, or the config returned.
load(config_file) ==
    IF config_file.kind \in {"missing", "directory"}
    THEN [raised |-> "FileNotFoundError", config |-> NoConfig]
    ELSE LET y == safe_load(config_file)
         IN IF y.exc = "YAMLError"
            THEN [raised |-> "ConfigYAMLError", config |-> NoConfig]
            ELSE IF y.exc # ""
            THEN [raised |-> y.exc, config |-> NoConfig]
            ELSE LET m == model_validate(y.data)
                 IN IF m.ok THEN [raised |-> "", config |-> m.config]
                    ELSE [raised |-> "ConfigValidationError",
                          config |-> NoConfig]

InitConfig ==
    /\ \E f \in ConfigFiles :
          cfg = [pc |-> "file", config_file |-> f, raised |-> "",
                 config |-> NoConfig]
    /\ gen = NoGen
    /\ is_dir = BothDirs
    /\ patch = [n \in Names |-> NoFile]
    /\ patchinfo = [n \in Names |-> NoPatchInfoFile]
    /\ repo = [f \in Files |-> Pristine]
    /\ ioerr = NoIoErr
    /\ pc = "idle"
    /\ status = [n \in Names |-> "NONE"]
    /\ patches_to_apply = <<>>
    /\ obsolete_patchinfo_files = <<>>
    /\ processing_patches = <<>>
    /\ k = 0
    /\ files_to_reset = <<>>
    /\ obsolete_result = <<>>
    /\ result = <<>>
    /\ log = <<>>
    /\ written = {}
    /\ deleted = {}
    /\ run = NoRun
    /\ last = "none"
    /\ env = 0
    /\ faults = 0

Loaded(outcome) ==
    /\ cfg.pc = "file"
    /\ cfg' = [cfg EXCEPT !.pc = "loaded", !.raised = outcome.raised,
                          !.config = outcome.config]
    /\ UNCHANGED <<engine, gen>>

\* load returns a ProgramConfig.
LoadOk ==
    /\ load(cfg.config_file).raised = ""
    /\ Loaded(load(cfg.config_file))

\* load raises.
LoadRaises ==
    /\ load(cfg.config_file).raised # ""
    /\ Loaded(load(cfg.config_file))

NextConfig == LoadOk \/ LoadRaises

SpecConfig == InitConfig /\ [][NextConfig]_vars

\* The fields of the mapping, with the YAML type the schema declares.
IsMapping(file) == file.kind = "document" /\ file.doc.t = "map"
LacksRequired(doc) ==
    \E v \in {doc.chromium_src_dir, doc.patches_dir, doc.submodule_dirs} :
        v.t = "missing"
WronglyTyped(doc) ==
    \/ doc.chromium_src_dir.t \notin {"missing", "str"}
    \/ doc.patches_dir.t \notin {"missing", "str"}
    \/ doc.submodule_dirs.t \notin {"missing", "seq"}
    \/ /\ doc.submodule_dirs.t = "seq"
       /\ \E i \in 1..Len(doc.submodule_dirs.items) :
             doc.submodule_dirs.items[i].t # "str"
    \/ doc.patchinfo_file.t \notin {"missing", "map"}
    \/ /\ doc.patchinfo_file.t = "map"
       /\ doc.patchinfo_file.version.t \notin {"missing", "int"}
\* A string of digits where an integer is declared.
DigitsForInt(v) == v.t = "str" /\ IsDigits(v.s)
Inconvertible(doc) ==
    \/ doc.chromium_src_dir.t \notin {"missing", "str"}
    \/ doc.patches_dir.t \notin {"missing", "str"}
    \/ doc.submodule_dirs.t \notin {"missing", "seq"}
    \/ /\ doc.submodule_dirs.t = "seq"
       /\ \E i \in 1..Len(doc.submodule_dirs.items) :
             doc.submodule_dirs.items[i].t # "str"
    \/ doc.patchinfo_file.t \notin {"missing", "map"}
    \/ /\ doc.patchinfo_file.t = "map"
       /\ doc.patchinfo_file.version.t \notin {"missing", "int"}
       /\ ~DigitsForInt(doc.patchinfo_file.version)

\* ------------------------------------------------------------------ C28
\* C28: load raises FileNotFoundError when the path is not an existing file,
\* ConfigYAMLError when the content is not valid YAML, ConfigValidationError
\* when the content is a valid YAML mapping that lacks a required field or
\* has a wrongly typed field; in none of these cases is a config returned.
C28_ErrorClasses ==
    cfg.pc = "loaded" =>
        LET f == cfg.config_file
        IN /\ f.kind \in {"missing", "directory"} =>
                 cfg.raised = "FileNotFoundError" /\ cfg.config = NoConfig
           /\ f.kind = "malformed" =>
                 cfg.raised = "ConfigYAMLError" /\ cfg.config = NoConfig
           /\ (IsMapping(f) /\ (LacksRequired(f.doc) \/ WronglyTyped(f.doc))) =>
                 cfg.raised = "ConfigValidationError" /\ cfg.config = NoConfig

\* C28, amended: as C28, with a wrongly typed field being one whose value
\* cannot be converted to the declared type; a string of digits given for
\* the integer version is converted and the config is returned.
C28_ErrorClassesLax ==
    cfg.pc = "loaded" =>
        LET f == cfg.config_file
        IN /\ f.kind \in {"missing", "directory"} =>
                 cfg.raised = "FileNotFoundError" /\ cfg.config = NoConfig
           /\ f.kind = "malformed" =>
                 cfg.raised = "ConfigYAMLError" /\ cfg.config = NoConfig
           /\ (IsMapping(f) /\ (LacksRequired(f.doc) \/ Inconvertible(f.doc))) =>
                 cfg.raised = "ConfigValidationError" /\ cfg.config = NoConfig
           /\ (/\ IsMapping(f)
               /\ ~LacksRequired(f.doc)
               /\ ~Inconvertible(f.doc)
               /\ WronglyTyped(f.doc)
               /\ validate_paths(f.doc.chromium_src_dir).ok
               /\ validate_paths(f.doc.patches_dir).ok) =>
                 /\ cfg.raised = ""
                 /\ cfg.config.patchinfo_file_schema_version
                        = ParseInt(f.doc.patchinfo_file.version.s)

\* The file of test_load_invalid_schema was loaded: chromium_src_dir missing
\* and submodule_dirs a string.
C28_Witness ==
    /\ cfg.pc = "loaded"
    /\ IsMapping(cfg.config_file)
    /\ cfg.config_file.doc.chromium_src_dir.t = "missing"
    /\ cfg.config_file.doc.submodule_dirs.t = "str"
    /\ cfg.raised = "ConfigValidationError"

\* ------------------------------------------------------------------ C29
\* C29: loading an empty config file raises ConfigYAMLError, not
\* ConfigValidationError, and returns no config.
C29_EmptyFile ==
    (cfg.pc = "loaded" /\ cfg.config_file.kind = "empty") =>
        cfg.raised = "ConfigYAMLError" /\ cfg.config = NoConfig

\* ------------------------------------------------------------------ C31
\* The units of the run, applied with success, that list the path.
AppliedOn(path) ==
    {l \in UnitIds :
        /\ Unit(l).applied = "ok"
        /\ \E j \in 1..Len(Unit(l).affected_files) :
              Unit(l).affected_files[j].file_relative_path = path}
IndexOf(l, path) ==
    CHOOSE j \in 1..Len(Unit(l).affected_files) :
        Unit(l).affected_files[j].file_relative_path = path
LastAppliedOn(path) ==
    CHOOSE l \in AppliedOn(path) : \A m \in AppliedOn(path) : m <= l

\* C31: when two to-apply units of one run touch the same file, the
\* fingerprint each unit's new ledger records for that file is the one the
\* file had immediately after that unit's own apply, not the one after later
\* units were applied.
C31_OwnApplyFingerprint ==
    \A i \in UnitIds :
        Unit(i).name \in written =>
            \A j \in 1..Len(Unit(i).affected_files) :
                patchinfo[Unit(i).name].affected_files[j].file_checksum
                    = Unit(i).after[j]

\* C31, amended: the fingerprint a unit's new ledger records for a file is
\* the one the file had after the last apply of the run that touched the
\* file; it is the one after the unit's own apply when no later unit of the
\* run touches the file.
C31_LastApplyFingerprint ==
    \A i \in UnitIds :
        Unit(i).name \in written =>
            \A j \in 1..Len(Unit(i).affected_files) :
                LET path == Unit(i).affected_files[j].file_relative_path
                    l == LastAppliedOn(path)
                IN /\ i \in AppliedOn(path)
                   /\ patchinfo[Unit(i).name].affected_files[j].file_checksum
                          = Unit(l).after[IndexOf(l, path)]

\* Two units of one run were applied on the same file and the ledger of the
\* earlier one is written.
C31_Witness ==
    \E i \in UnitIds, l \in UnitIds :
        /\ i < l
        /\ Unit(i).name \in written
        /\ Unit(l).applied = "ok"
        /\ \E j \in 1..Len(Unit(i).affected_files) :
              /\ l \in AppliedOn(Unit(i).affected_files[j].file_relative_path)
              /\ patchinfo[Unit(i).name].affected_files[j].file_checksum
                    # Unit(i).after[j]

\* ------------------------------------------------------------------ C32
\* The artifacts the discovery of the run in progress classified fresh.
FreshAtDiscovery == {n \in Names : patch[n].exists /\ status[n] = "NONE"}
Discovered == pc \in {"query", "reset", "apply", "update", "report", "obsolete"}

\* C32: an artifact becomes a to-apply unit iff its status at discovery is
\* not fresh; a fresh artifact is never passed to the VCS apply operation and
\* its ledger is neither rewritten nor deleted in that run.
C32_OnlyStaleTouched ==
    Discovered =>
        /\ \A n \in Names :
              n \in SeqRange(patches_to_apply)
                  <=> (patch[n].exists /\ status[n] # "NONE")
        /\ \A n \in FreshAtDiscovery :
              /\ \A l \in 1..Len(log) : log[l][1] \in {"apply", "numstat"}
                                            => log[l][2] # n
              /\ n \notin written \cup deleted
              /\ patchinfo[n] = run.patchinfo0[n]

\* A run has applied a stale artifact and written its ledger while another
\* artifact was fresh.
C32_Witness ==
    /\ Discovered
    /\ FreshAtDiscovery # {}
    /\ written # {}
    /\ \E l \in 1..Len(log) : log[l][1] = "apply"

StaleStatuses ==
    {"NONE", "NO_PATCHINFO", "PATCHINFO_OUTDATED", "PATCH_CHANGED", "SRC_CHANGED"}
LedgerCurrent(n) ==
    ~LedgerMissing(n) /\ LedgerParses(n) /\ VersionIsCurrent(n)
Unhashable(e) ==
    ~Readable(joinpath(repo, e.file_relative_path),
              e.file_relative_path \in ioerr.files)

\* C34: get_stale_status returns a status for every combination of missing,
\* unreadable or present ledger, artifact and affected files and never
\* raises; a patch fingerprint that cannot be computed or is null in the
\* ledger gives PATCH_CHANGED, and (the patch fingerprint matching) an
\* affected file that cannot be hashed or whose recorded fingerprint is null
\* gives SRC_CHANGED.
C34_ClassifierTotal ==
    Classified =>
        /\ status[1] \in StaleStatuses
        /\ (/\ LedgerCurrent(1)
            /\ \/ ~Readable(patch[1], ioerr.patch)
               \/ patchinfo[1].patch_checksum = JNull)
              => status[1] = "PATCH_CHANGED"
        /\ (/\ LedgerCurrent(1)
            /\ ArtifactMatches(1)
            /\ \E e \in SeqRange(patchinfo[1].affected_files) :
                  Unhashable(e) \/ e.file_checksum = JNull)
              => status[1] = "SRC_CHANGED"

\* A current ledger whose patch fingerprint matches and that lists a file
\* that is missing or cannot be read was classified.
C34_Witness ==
    /\ Classified
    /\ LedgerCurrent(1)
    /\ ArtifactMatches(1)
    /\ \E e \in SeqRange(patchinfo[1].affected_files) :
          Unhashable(e) /\ e.file_checksum # JNull
    /\ status[1] = "SRC_CHANGED"

\* ------------------------------------------------------------------ C35
\* The paths of the entries of a ledger file.
PathsOf(entries) == [j \in 1..Len(entries) |-> entries[j].file_relative_path]

\* C35: every ledger written by the apply phase belongs to a unit whose
\* affected-file query, apply and fingerprinting all succeeded; it has the
\* current schema version, a non-null patch fingerprint and a non-null
\* fingerprint for every listed file, and lists exactly the files the
\* affected-file query of that run reported.
C35_OnlyVerifiedLedgers ==
    \A n \in written :
        /\ \E i \in UnitIds :
              /\ Unit(i).name = n
              /\ Unit(i).error = ""
              /\ Unit(i).applied = "ok"
        /\ patchinfo[n].exists
        /\ patchinfo[n].schema_version = JInt(PATCHINFO_FILE_SCHEMA_VERSION)
        /\ patchinfo[n].patch_checksum.t = "str"
        /\ \A e \in SeqRange(patchinfo[n].affected_files) :
              e.file_checksum.t = "str"
        /\ PathsOf(patchinfo[n].affected_files) = NumstatPaths(patch[n])

\* A run wrote the ledger of one unit while another unit of the run failed.
C35_Witness ==
    /\ written # {}
    /\ \E i \in UnitIds : Unit(i).error # ""
    /\ \E n \in written : Len(patchinfo[n].affected_files) > 1

\* ------------------------------------------------------------------ C36
\* The discovery of the run found every artifact fresh and no orphaned
\* ledger.
NothingStale ==
    /\ is_dir.patch_dir /\ is_dir.git_repo_dir
    /\ \A n \in Names : patch[n].exists => status[n] = "NONE"
    /\ \A n \in Names : run.patchinfo0[n].exists => patch[n].exists

\* C36: if every artifact is classified fresh and no ledger is orphaned,
\* apply_patches issues no reset and no apply, writes and deletes no ledger
\* file, leaves the working tree unchanged and returns an empty list.
C36_NothingStaleNoOp ==
    (Running /\ pc # "idle" /\ NothingStale) =>
        /\ pc = "return"
        /\ log = <<>>
        /\ written = {} /\ deleted = {}
        /\ patchinfo = run.patchinfo0
        /\ repo = run.repo0
        /\ result = <<>>
        /\ ~run.raised

\* A run over a patch directory with two fresh artifacts found nothing to do.
C36_Witness ==
    /\ Returning
    /\ NothingStale
    /\ Cardinality(FreshAtDiscovery) > 1
    /\ log = <<>>

\* ------------------------------------------------------------------ C37
\* C37: for every artifact classified fresh at discovery, the content of each
\* file listed in its ledger is the same when apply_patches returns as
\* before the run, also when to-apply or obsolete units of the run list the
\* same file.
C37_FreshNotUndone ==
    Returning =>
        \A n \in FreshAtDiscovery :
            \A e \in SeqRange(run.patchinfo0[n].affected_files) :
                joinpath(repo, e.file_relative_path)
                    = joinpath(run.repo0, e.file_relative_path)

\* ------------------------------------------------------------------ C38
\* The to-apply units of the run that ended with an error.
FailedNames ==
    {Unit(i).name : i \in {j \in UnitIds : Unit(j).error # ""}}
    \cup {patches_to_apply[i] : i \in {j \in 1..Len(patches_to_apply) :
                                        QueryFailed(j)}}

\* C38: if a to-apply unit ends a run with an error (query, apply or
\* fingerprinting failure), then with no change in between the discovery of
\* the next run classifies its artifact as not fresh again.  Read when the
\* run returns, on the files the next discovery will read.
C38_FailedUnitRetried ==
    Returning => \A n \in FailedNames : StaleStatusOf(n) # "NONE"

\* ============================================== repeated runs, nothing else
\* apply_patches is run again and again from an arbitrary patch directory and
\* working tree: patch files with and without ledger, ledgers with and without
\* patch file, ledgers that are not JSON objects, source files that are
\* pristine, patched or missing.  Nothing changes the files between the runs
\* and no operation fails unless the state of the files forces it (the budget
\* of external changes and injected failures is used up from the start).
ConvergeLedgers ==
    LET ledger == PatchInfo_write(PatchInfo(
                      JInt(PATCHINFO_FILE_SCHEMA_VERSION), DigestOf(<<1>>),
                      <<AffectedFileData(PathOf(1), DigestOf(<<1>>))>>))
    IN {NoPatchInfoFile, ledger, [ledger EXCEPT !.dict = FALSE]}

InitConverge ==
    /\ is_dir = BothDirs
    /\ gen = NoGen
    /\ cfg = NoCfg
    /\ patch \in {p \in [Names -> {NoFile, File(<<1>>), File(<<3>>)}] :
                     ~p[NumNames].exists}
    /\ patchinfo \in [Names -> ConvergeLedgers]
    /\ repo \in [Files -> {NoFile, Pristine, File(<<1>>)}]
    /\ ioerr = NoIoErr
    /\ pc = "idle"
    /\ status = [n \in Names |-> "NONE"]
    /\ patches_to_apply = <<>>
    /\ obsolete_patchinfo_files = <<>>
    /\ processing_patches = <<>>
    /\ k = 0
    /\ files_to_reset = <<>>
    /\ obsolete_result = <<>>
    /\ result = <<>>
    /\ log = <<>>
    /\ written = {}
    /\ deleted = {}
    /\ run = NoRun
    /\ last = "none"
    /\ env = MaxDisturb
    /\ faults = 0

NextConverge ==
    \/ Discover
    \/ QueryOk \/ QueryAbort \/ QueryDone
    \/ ResetOk
    \/ ApplyOk \/ ApplyDone
    \/ UpdateOk \/ UpdateDone
    \/ Report
    \/ ObsoleteOk \/ ObsoleteSkip \/ ObsoleteResetOk
    \/ Return

\* The caller runs apply_patches again after every return and every step of
\* a run is a step of sequential code: some step is always taken.
SpecConverge == InitConverge /\ [][NextConverge]_vars /\ WF_vars(NextConverge)

\* The discovery of the run found no to-apply unit and no obsolete unit.
Quiescent ==
    /\ pc = "return"
    /\ ~run.raised
    /\ patches_to_apply = <<>>
    /\ obsolete_patchinfo_files = <<>>
    /\ log = <<>>

\* ------------------------------------------------------------------ C39
\* C39: from every state of patch files, ledgers and working tree, repeated
\* runs of apply_patches with no external change and no failing operation
\* eventually reach a run whose discovery finds zero to-apply units and zero
\* obsolete units, also when several patches touch the same file.
C39_Convergence == <>Quiescent
====
